---- MODULE Spec2Model ----
(***************************************************************************)
(* riddlesolver: branch lineage inference, unique-commit extraction,       *)
(* cross-branch deduplication and the commit source adapters, modelled     *)
(* from src/riddlesolver/utils.py and src/riddlesolver/repository.py.      *)
(***************************************************************************)
EXTENDS Integers, Sequences, FiniteSets, TLC

(***************************************************************************)
(* Bounds of the model.                                                    *)
(***************************************************************************)
\* at most this many {branch, author, commit_messages} groups in one input
MaxGroups == 3
\* at most this many commit messages in one input, over all its groups
MaxMessages == 3

(***************************************************************************)
(* Universes the inputs are drawn from.                                    *)
(***************************************************************************)
\* authors, in the order Python compares their names
AuthorOrder == <<"alice", "bob">>
Authors == {AuthorOrder[i] : i \in 1..Len(AuthorOrder)}
\* branch names a group may carry
GroupBranches == {"main", "dev"}
\* commit ids the groups of a deduplication input may hold
GroupShas == {"A", "B"}

VARIABLES
    pc,         \* position of the run under check
    commits,    \* the argument of remove_duplicated_commits
    deduped,    \* remove_duplicated_commits(commits)
    rededuped,  \* remove_duplicated_commits(deduped)
    backend,    \* "github" (hosted API) or "local" (working copy or mirror)
    refs,       \* the repository: its branches in listing order, each with
                \* its whole commit list, newest first
    start_date, \* the window of the call
    end_date,
    branch_arg, \* the argument branch of the call: a branch name, or None
    base_branch_map,        \* branch -> inferred base branch
    branch_commits_caches,  \* branch -> commits, as get_base_branch_map returns it
    unique_commits_map,     \* branch -> unique commits
    unique_commits_arg,     \* the argument unique_commits of the call
    raised,                 \* the exception the call raised, or None
    callee,         \* the function that obtains the mirror of a remote
    cache_duration, \* the configuration value general/cache_duration
    mirror,         \* the directory at the cache path of the remote
    mtime,          \* its modification time, in days
    now,            \* datetime.now(), in days
    ops,            \* the file system and network operations of the call
    repo_path,      \* the locator of the request
    access_token,   \* the access token of the request, or None
    repo_type,      \* the argument repo_type of fetch_commits
    called,         \* the backend function the request was handed to
    config_file,    \* the configuration file: whether it exists, its options
    set_option,     \* the (section, key) a value was set for
    set_value,      \* that value
    got_value,      \* what get_config_value returned
    calls,          \* the running calls of fetch_commits_from_remote: for
                    \* each its URL, its position and its local variables
    cache_root,     \* the directories under the cache root, by name
    journal,        \* the file system and git operations of these calls
    server,         \* the answer the token endpoint gives to the next poll
    polled,         \* the answers poll_for_token has received
    poll_result,    \* what poll_for_token returned
    replies,        \* the outcome of the summarization request of each group
    summary         \* the list generate_summary builds

dedupVars == <<commits, deduped, rededuped>>
repoVars == <<backend, refs, start_date, end_date, branch_arg>>
lineageVars == <<base_branch_map, branch_commits_caches, unique_commits_map>>
mirrorVars == <<callee, cache_duration, mirror, mtime, now, ops>>
dispatchVars == <<repo_path, access_token, repo_type, called>>
configVars == <<config_file, set_option, set_value, got_value>>
raceVars == <<calls, cache_root, journal>>
pollVars == <<server, polled, poll_result>>
summaryVars == <<replies, summary>>
sessionVars == <<raceVars, pollVars, summaryVars>>
callVars == <<unique_commits_arg, raised, mirrorVars, dispatchVars, configVars, sessionVars>>
vars == <<pc, dedupVars, repoVars, lineageVars, callVars>>

\* the variables a specification does not use
IdleDedup ==
    /\ commits = <<>>
    /\ deduped = <<>>
    /\ rededuped = <<>>

IdleRepo ==
    /\ backend = "none"
    /\ refs = <<>>
    /\ start_date = 0
    /\ end_date = 0
    /\ branch_arg = "None"

IdleLineage ==
    /\ base_branch_map = <<>>
    /\ branch_commits_caches = <<>>
    /\ unique_commits_map = <<>>

IdleMirror ==
    /\ callee = "none"
    /\ cache_duration = "None"
    /\ mirror = "absent"
    /\ mtime = 0
    /\ now = 0
    /\ ops = <<>>

IdleDispatch ==
    /\ repo_path = <<>>
    /\ access_token = "None"
    /\ repo_type = "None"
    /\ called = "None"

IdleConfig ==
    /\ config_file = "None"
    /\ set_option = <<>>
    /\ set_value = "None"
    /\ got_value = "None"

IdleRace ==
    /\ calls = <<>>
    /\ cache_root = <<>>
    /\ journal = <<>>

IdlePoll ==
    /\ server = "None"
    /\ polled = <<>>
    /\ poll_result = "None"

IdleSummary ==
    /\ replies = <<>>
    /\ summary = <<>>

IdleSession ==
    /\ IdleRace
    /\ IdlePoll
    /\ IdleSummary

IdleCall ==
    /\ unique_commits_arg = FALSE
    /\ raised = "None"
    /\ IdleMirror
    /\ IdleDispatch
    /\ IdleConfig
    /\ IdleSession

(***************************************************************************)
(* Helpers on sequences.                                                   *)
(***************************************************************************)
Min(S) == CHOOSE x \in S : \A y \in S : x <= y

SeqContains(s, x) == \E i \in 1..Len(s) : s[i] = x

RemoveAt(s, i) == SubSeq(s, 1, i - 1) \o SubSeq(s, i + 1, Len(s))

(***************************************************************************)
(* remove_duplicated_commits (utils.py:134-176).                           *)
(* A message is the dict {"messages", "sha"}; the key 'removed' the        *)
(* function sets on a message is the field removed (absent = FALSE).       *)
(***************************************************************************)
main_branch == "main"

AuthorRank(a) == CHOOSE i \in 1..Len(AuthorOrder) : AuthorOrder[i] = a

\* the sort key (x['author'], x['branch'] != 'main'), as one number
SortKey(x) == 2 * AuthorRank(x.author) + (IF x.branch # "main" THEN 1 ELSE 0)

\* one step of Python's stable sort: x goes after every element whose key is
\* not greater than its own
InsertSorted(t, x) ==
    LET i == Cardinality({j \in 1..Len(t) : SortKey(t[j]) <= SortKey(x)})
    IN  SubSeq(t, 1, i) \o <<x>> \o SubSeq(t, i + 1, Len(t))

RECURSIVE SortedByAuthor(_)
SortedByAuthor(s) ==
    IF s = <<>> THEN <<>>
    ELSE InsertSorted(SortedByAuthor(SubSeq(s, 1, Len(s) - 1)), s[Len(s)])

\* the first group of branch 'main' is removed (list.remove takes out the
\* first element equal to it) and inserted at index 0
MoveMainToFront(s) ==
    LET mains == {i \in 1..Len(s) : s[i].branch = main_branch}
    IN  IF mains = {} THEN s
        ELSE LET i == Min(mains)
                 j == Min({k \in 1..Len(s) : s[k] = s[i]})
             IN  <<s[i]>> \o RemoveAt(s, j)

\* the order in which the groups are walked
EvaluationOrder(s) == MoveMainToFront(SortedByAuthor(s))

AlreadySeenLast(unique_commits, sha) ==
    Len(unique_commits) > 0 /\ unique_commits[Len(unique_commits)] = sha

\* sha in unique_commits
AlreadySeen(unique_commits, sha) == SeqContains(unique_commits, sha)

\* the inner loop over one group's messages: marks the messages whose sha was
\* seen, records the others
RECURSIVE MarkMessages(_, _)
MarkMessages(messages, unique_commits) ==
    IF messages = <<>>
    THEN [messages |-> <<>>, unique_commits |-> unique_commits]
    ELSE LET message == Head(messages)
             seen == AlreadySeen(unique_commits, message.sha)
             marked == IF seen THEN [message EXCEPT !.removed = TRUE] ELSE message
             rest == MarkMessages(Tail(messages),
                                  IF seen THEN unique_commits
                                  ELSE Append(unique_commits, message.sha))
         IN  [messages |-> <<marked>> \o rest.messages,
              unique_commits |-> rest.unique_commits]

Marked(message) == message.removed

\* not message.get('removed')
NotRemoved(message) == ~message.removed

\* the outer loop: every group keeps the messages that are not marked
RECURSIVE StripGroups(_, _)
StripGroups(groups, unique_commits) ==
    IF groups = <<>> THEN <<>>
    ELSE LET commit_object == Head(groups)
             m == MarkMessages(commit_object.commit_messages, unique_commits)
             messages == SelectSeq(m.messages, NotRemoved)
         IN  <<[commit_object EXCEPT !.commit_messages = messages]>>
             \o StripGroups(Tail(groups), m.unique_commits)

HasSeveralMessages(commit_object) == Len(commit_object.commit_messages) > 1

\* a commit object with no commit messages is falsy
HasMessages(commit_object) == commit_object.commit_messages # <<>>

remove_duplicated_commits(cs) ==
    SelectSeq(StripGroups(EvaluationOrder(cs), <<>>), HasMessages)

(***************************************************************************)
(* Inputs of remove_duplicated_commits: every list of at most MaxGroups    *)
(* groups holding at most MaxMessages messages, none marked.               *)
(***************************************************************************)
Message(sha) == [sha |-> sha, removed |-> FALSE]

RECURSIVE SumTo(_, _)
SumTo(lens, n) == IF n = 0 THEN 0 ELSE lens[n] + SumTo(lens, n - 1)

\* the list of Len(lens) groups in which group i has the author and branch
\* hdr[i] and the next lens[i] ids of flat
BuildGroups(lens, hdr, flat) ==
    [i \in 1..Len(lens) |->
        [author |-> hdr[i][1],
         branch |-> hdr[i][2],
         commit_messages |->
            [j \in 1..lens[i] |-> Message(flat[SumTo(lens, i - 1) + j])]]]

(***************************************************************************)
(* Deduplication applied to an input, then to its own output.              *)
(***************************************************************************)
InitDedup ==
    /\ pc = "input"
    /\ \E n \in 0..MaxGroups : \E lens \in [1..n -> 0..MaxMessages] :
            /\ SumTo(lens, n) <= MaxMessages
            /\ \E hdr \in [1..n -> Authors \X GroupBranches] :
               \E flat \in [1..SumTo(lens, n) -> GroupShas] :
                    commits = BuildGroups(lens, hdr, flat)
    /\ deduped = <<>>
    /\ rededuped = <<>>
    /\ IdleRepo
    /\ IdleLineage
    /\ IdleCall

Deduplicate ==
    /\ pc = "input"
    /\ deduped' = remove_duplicated_commits(commits)
    /\ pc' = "deduped"
    /\ UNCHANGED <<commits, rededuped, repoVars, lineageVars, callVars>>

DeduplicateAgain ==
    /\ pc = "deduped"
    /\ rededuped' = remove_duplicated_commits(deduped)
    /\ pc' = "rededuped"
    /\ UNCHANGED <<commits, deduped, repoVars, lineageVars, callVars>>

NextDedup == Deduplicate \/ DeduplicateAgain

SpecDedup == InitDedup /\ [][NextDedup]_vars

(***************************************************************************)
(* Claims on remove_duplicated_commits.                                    *)
(***************************************************************************)
\* the positions (group, message) at which sha occurs in a list of groups
Positions(groups, sha) ==
    UNION {{<<i, j>> : j \in {k \in 1..Len(groups[i].commit_messages) :
                                groups[i].commit_messages[k].sha = sha}}
           : i \in 1..Len(groups)}

\* the commit ids that occur in a list of groups
Ids(groups) ==
    UNION {{groups[i].commit_messages[j].sha : j \in 1..Len(groups[i].commit_messages)}
           : i \in 1..Len(groups)}

\* the groups of a list that hold sha
GroupsHolding(groups, sha) == {p[1] : p \in Positions(groups, sha)}

\* C1: the output of remove_duplicated_commits holds no commit id more than
\* once, neither in two groups nor twice inside one group.
C1_NoIdTwice ==
    pc \in {"deduped", "rededuped"} =>
        \A sha \in Ids(deduped) : Cardinality(Positions(deduped, sha)) = 1

\* an input in which one id occurs twice inside a group and another id occurs
\* in two groups, deduplicated
C1_Witness ==
    /\ pc = "deduped"
    /\ \E sha \in GroupShas : \E p, q \in Positions(commits, sha) :
            p[1] = q[1] /\ p[2] # q[2]
    /\ \E sha \in GroupShas : Cardinality(GroupsHolding(commits, sha)) > 1
    /\ deduped # <<>>

\* C2: the ids of the output are exactly the ids of the input.
C2_SameIds == pc \in {"deduped", "rededuped"} => Ids(deduped) = Ids(commits)

\* an input with repeated ids whose output has fewer occurrences and fewer
\* groups than the input
C2_Witness ==
    /\ pc = "deduped"
    /\ Ids(commits) = GroupShas
    /\ \E sha \in GroupShas :
            Cardinality(Positions(commits, sha)) > Cardinality(Positions(deduped, sha))
    /\ Len(deduped) < Len(commits)

\* C3: applying remove_duplicated_commits to its own output returns the
\* same groups, with the same commit lists, in the same order.
C3_Idempotent == pc = "rededuped" => rededuped = deduped

\* the group of the output that holds sha has branch 'main'
KeptInMain(sha) ==
    \A i \in GroupsHolding(deduped, sha) : deduped[i].branch = main_branch

\* the group of the output that holds sha is the first group of the
\* evaluation order that holds it
KeptInFirst(sha) ==
    LET order == EvaluationOrder(commits)
        first == order[Min(GroupsHolding(order, sha))]
    IN  \A i \in GroupsHolding(deduped, sha) :
            /\ deduped[i].author = first.author
            /\ deduped[i].branch = first.branch

MaxBranches == 3

\* the commits of the repository; a commit is identified by its sha, which
\* fixes its author and its timestamp
Shas == {"A", "B", "C", "D"}
CommitAuthor == ("A" :> "alice") @@ ("B" :> "bob") @@ ("C" :> "alice") @@ ("D" :> "bob")
CommitDate == ("A" :> 1) @@ ("B" :> 2) @@ ("C" :> 3) @@ ("D" :> 4)
Commit(sha) == [sha |-> sha, author |-> CommitAuthor[sha], date |-> CommitDate[sha]]

\* the commits of a set of ids as a branch lists them: newest first
History(ids) ==
    SelectSeq(<<Commit("D"), Commit("C"), Commit("B"), Commit("A")>>,
              LAMBDA c : c.sha \in ids)

\* branch names, in the order a listing returns them; origin/HEAD is the
\* symbolic ref a clone holds next to its remote branches
RefNames == <<"HEAD", "feature", "fix/feature", "main">>

\* the windows a call may pass: they cut off nothing, the oldest commit, the
\* newest commit, or both
WindowStarts == {1, 2}
WindowEnds == {3, 4}

None == "None"

\* the refs named RefNames[i], i in names, with the commits content gives them
RefList(names, content) ==
    LET idx == SelectSeq([i \in 1..Len(RefNames) |-> i], LAMBDA i : i \in names)
    IN  [k \in 1..Len(idx) |->
            [name |-> RefNames[idx[k]], commits |-> History(content[idx[k]])]]

InitRefs ==
    /\ backend \in {"github", "local"}
    /\ \E names \in SUBSET (1..Len(RefNames)) :
            /\ Cardinality(names) <= MaxBranches
            /\ \E content \in [names -> SUBSET Shas] :
                    /\ refs = RefList(names, content)
                    \* the hosted API lists branches only; in a clone HEAD
                    \* points at one of the remote branches
                    /\ \A i \in names : RefNames[i] = "HEAD" =>
                            /\ backend = "local"
                            /\ \E j \in names \ {i} : content[j] = content[i]
    /\ start_date \in WindowStarts
    /\ end_date \in WindowEnds

InitRepo ==
    /\ InitRefs
    /\ branch_arg = None

(***************************************************************************)
(* Insertion-ordered dicts: sequences of [key, value] with distinct keys.  *)
(***************************************************************************)
DictHas(d, k) == \E i \in 1..Len(d) : d[i].key = k

DictGet(d, k) == d[CHOOSE i \in 1..Len(d) : d[i].key = k].value

DictSet(d, k, v) ==
    IF DictHas(d, k)
    THEN [i \in 1..Len(d) |-> IF d[i].key = k THEN [key |-> k, value |-> v] ELSE d[i]]
    ELSE Append(d, [key |-> k, value |-> v])

DictKeys(d) == {d[i].key : i \in 1..Len(d)}

\* start_date <= t <= end_date, over a list of commits
InWindow(cs) ==
    SelectSeq(cs, LAMBDA c : start_date <= c.date /\ c.date <= end_date)

(***************************************************************************)
(* The hosted API (requests.get in utils.py): the branch listing, and the  *)
(* commits of a branch between since and until.                            *)
(***************************************************************************)
ApiBranches == [i \in 1..Len(refs) |-> refs[i].name]

ApiCommits(branch) ==
    InWindow(refs[CHOOSE i \in 1..Len(refs) : refs[i].name = branch].commits)

(***************************************************************************)
(* get_base_branch_map (utils.py:179-244).                                 *)
(***************************************************************************)
CommitHashes(cs) == {cs[i].sha : i \in 1..Len(cs)}

ImprovesOrEquals(common_commits, base_branch_commits) ==
    Cardinality(common_commits) >= Len(base_branch_commits)

\* len(common_commits) > len(base_branch_commits)
Improves(common_commits, base_branch_commits) ==
    Cardinality(common_commits) > Len(base_branch_commits)

\* the commits of other_branch: from the cache, or requested again
OtherBranchCommits(other_branch, caches) ==
    IF DictHas(caches, other_branch)
    THEN DictGet(caches, other_branch)
    ELSE ApiCommits(other_branch)

\* the inner loop over the other branches
RECURSIVE FindBaseBranch(_, _, _, _, _, _)
FindBaseBranch(branch, branch_commit_hashes, others, caches, base_branch, base_branch_commits) ==
    IF others = <<>> THEN base_branch
    ELSE LET other_branch == Head(others)
             other_branch_commits == OtherBranchCommits(other_branch, caches)
             common_commits ==
                branch_commit_hashes \cap CommitHashes(other_branch_commits)
         IN  IF other_branch # branch /\ Improves(common_commits, base_branch_commits)
             THEN FindBaseBranch(branch, branch_commit_hashes, Tail(others), caches,
                                 other_branch, other_branch_commits)
             ELSE FindBaseBranch(branch, branch_commit_hashes, Tail(others), caches,
                                 base_branch, base_branch_commits)

\* the outer loop over the branches
RECURSIVE BaseBranchLoop(_, _, _, _)
BaseBranchLoop(todo, branches, map, caches) ==
    IF todo = <<>>
    THEN [base_branch_map |-> map, branch_commits_caches |-> caches]
    ELSE LET branch == Head(todo)
             branch_commits == ApiCommits(branch)
             caches2 == DictSet(caches, branch, branch_commits)
             base_branch == FindBaseBranch(branch, CommitHashes(branch_commits),
                                           branches, caches2, None, <<>>)
         IN  BaseBranchLoop(Tail(todo), branches,
                            DictSet(map, branch, base_branch), caches2)

get_base_branch_map == BaseBranchLoop(ApiBranches, ApiBranches, <<>>, <<>>)

(***************************************************************************)
(* get_all_unique_commits (utils.py:247-306).                              *)
(***************************************************************************)
\* commit not in base_branch_commits
IsNotIn(commit, base_branch_commits) == ~SeqContains(base_branch_commits, commit)

RECURSIVE UniqueLoop(_, _, _)
UniqueLoop(items, commits_caches, unique_map) ==
    IF items = <<>> THEN unique_map
    ELSE LET branch == Head(items).key
             base_branch == Head(items).value
             branch_commits == OtherBranchCommits(branch, commits_caches)
             base_branch_commits == OtherBranchCommits(base_branch, commits_caches)
             unique_commits ==
                SelectSeq(branch_commits, LAMBDA c : IsNotIn(c, base_branch_commits))
         IN  IF base_branch = None
             THEN UniqueLoop(Tail(items), commits_caches,
                             DictSet(unique_map, branch, branch_commits))
             ELSE UniqueLoop(Tail(items), commits_caches,
                             DictSet(unique_map, branch, unique_commits))

get_all_unique_commits(map, commits_caches) == UniqueLoop(map, commits_caches, <<>>)

(***************************************************************************)
(* The refs of a clone (repo.remotes.origin.refs) and their commits.       *)
(***************************************************************************)
\* ref.name.split('/')[-1], over the names of RefNames
LastSegment(name) == IF name = "fix/feature" THEN "feature" ELSE name

\* name in repo.remotes.origin.refs: a ref whose name is origin/<name>
RefExists(name) == \E i \in 1..Len(refs) : refs[i].name = name

\* repo.remotes.origin.refs[name]
RefNamed(name) == refs[CHOOSE i \in 1..Len(refs) : refs[i].name = name]

RefCommitsUnfiltered(ref) == ref.commits

\* list(repo.iter_commits(ref)) filtered to the window
RefCommits(ref) == InWindow(ref.commits)

CommitSet(cs) == {cs[i] : i \in 1..Len(cs)}

(***************************************************************************)
(* get_base_branch_map_local (utils.py:309-347).                           *)
(***************************************************************************)
RECURSIVE FindBaseBranchLocal(_, _, _, _, _)
FindBaseBranchLocal(branch, branch_commits, others, base_branch, base_branch_commits) ==
    IF others = <<>> THEN base_branch
    ELSE LET other_branch == LastSegment(Head(others).name)
             other_branch_commits == RefCommits(Head(others))
             common_commits == CommitSet(branch_commits) \cap CommitSet(other_branch_commits)
         IN  IF other_branch # branch /\ Improves(common_commits, base_branch_commits)
             THEN FindBaseBranchLocal(branch, branch_commits, Tail(others),
                                      other_branch, other_branch_commits)
             ELSE FindBaseBranchLocal(branch, branch_commits, Tail(others),
                                      base_branch, base_branch_commits)

RECURSIVE BaseBranchLoopLocal(_, _)
BaseBranchLoopLocal(todo, map) ==
    IF todo = <<>> THEN map
    ELSE LET branch == LastSegment(Head(todo).name)
             branch_commits == RefCommits(Head(todo))
             base_branch == FindBaseBranchLocal(branch, branch_commits, refs, None, <<>>)
         IN  BaseBranchLoopLocal(Tail(todo), DictSet(map, branch, base_branch))

get_base_branch_map_local == BaseBranchLoopLocal(refs, <<>>)

(***************************************************************************)
(* get_all_unique_commits_local (utils.py:350-392).                        *)
(***************************************************************************)
\* the inner loop over the refs whose last name segment is branch
RECURSIVE UniqueOfBranchLocal(_, _, _, _)
UniqueOfBranchLocal(branch, base_branch, todo, unique_map) ==
    IF todo = <<>> THEN unique_map
    ELSE LET branch_ref == Head(todo)
             branch_commits == RefCommits(branch_ref)
             base_branch_commits == RefCommits(RefNamed(base_branch))
             unique_commits ==
                SelectSeq(branch_commits, LAMBDA c : IsNotIn(c, base_branch_commits))
         IN  IF LastSegment(branch_ref.name) # branch
             THEN UniqueOfBranchLocal(branch, base_branch, Tail(todo), unique_map)
             ELSE IF base_branch = None \/ ~RefExists(base_branch)
             THEN UniqueOfBranchLocal(branch, base_branch, Tail(todo),
                                      DictSet(unique_map, branch, branch_commits))
             ELSE UniqueOfBranchLocal(branch, base_branch, Tail(todo),
                                      DictSet(unique_map, branch, unique_commits))

RECURSIVE UniqueLoopLocal(_, _)
UniqueLoopLocal(items, unique_map) ==
    IF items = <<>> THEN unique_map
    ELSE IF Head(items).key = "HEAD"
    THEN UniqueLoopLocal(Tail(items), unique_map)
    ELSE UniqueLoopLocal(Tail(items),
            UniqueOfBranchLocal(Head(items).key, Head(items).value, refs, unique_map))

get_all_unique_commits_local(map) == UniqueLoopLocal(map, <<>>)

(***************************************************************************)
(* fetch_commits_from_github, the loop over the branch -> commits map      *)
(* (repository.py:89-136).                                                 *)
(***************************************************************************)
\* one step of sorted(commits, key=date, reverse=True): stable, newest first
InsertByDate(t, c) ==
    LET i == Cardinality({j \in 1..Len(t) : t[j].date >= c.date})
    IN  SubSeq(t, 1, i) \o <<c>> \o SubSeq(t, i + 1, Len(t))

RECURSIVE SortedByDate(_)
SortedByDate(cs) ==
    IF cs = <<>> THEN <<>>
    ELSE InsertByDate(SortedByDate(SubSeq(cs, 1, Len(cs) - 1)), cs[Len(cs)])

\* commits_by_author: author -> the commits of the author, in list order
RECURSIVE CommitsByAuthor(_, _)
CommitsByAuthor(cs, commits_by_author) ==
    IF cs = <<>> THEN commits_by_author
    ELSE LET author == Head(cs).author
             sofar == IF DictHas(commits_by_author, author)
                      THEN DictGet(commits_by_author, author) ELSE <<>>
         IN  CommitsByAuthor(Tail(cs),
                DictSet(commits_by_author, author, Append(sofar, Head(cs))))

WithinDatesFrom(c, from, to) == from <= c.date

\* start_date <= commit date <= end_date
WithinDates(c, from, to) == from <= c.date /\ c.date <= to

\* the loop over the authors of one branch; st holds results and the values
\* of the variables start_date and end_date
RECURSIVE AuthorLoop(_, _, _)
AuthorLoop(branch_name, items, st) ==
    IF items = <<>> THEN st
    ELSE LET author == Head(items).key
             sorted == SortedByDate(Head(items).value)
             kept == SelectSeq(sorted,
                        LAMBDA c : WithinDates(c, st.start_date, st.end_date))
             last == kept[1].date
             first == kept[Len(kept)].date
             messages == [i \in 1..Len(kept) |-> Message(kept[i].sha)]
         IN  IF Len(kept) <= 0
             THEN AuthorLoop(branch_name, Tail(items), st)
             ELSE AuthorLoop(branch_name, Tail(items),
                    [results |-> Append(st.results,
                                    [branch |-> branch_name,
                                     author |-> author,
                                     start_date |-> first,
                                     end_date |-> last,
                                     commit_messages |-> messages]),
                     start_date |-> first,
                     end_date |-> last])

\* the loop over the branches
RECURSIVE BranchLoop(_, _, _)
BranchLoop(items, wanted, st) ==
    IF items = <<>> THEN st.results
    ELSE IF wanted # None /\ Head(items).key # wanted
    THEN BranchLoop(Tail(items), wanted, st)
    ELSE BranchLoop(Tail(items), wanted,
            AuthorLoop(Head(items).key, CommitsByAuthor(Head(items).value, <<>>), st))

GroupCommits(map, from, to, wanted) ==
    BranchLoop(map, wanted, [results |-> <<>>, start_date |-> from, end_date |-> to])

(***************************************************************************)
(* Lineage inference, then unique-commit extraction, on a repository.      *)
(***************************************************************************)
InitLineage ==
    /\ pc = "repo"
    /\ InitRepo
    /\ IdleCall
    /\ commits = <<>>
    /\ deduped = <<>>
    /\ rededuped = <<>>
    /\ base_branch_map = <<>>
    /\ branch_commits_caches = <<>>
    /\ unique_commits_map = <<>>

InferLineage ==
    /\ pc = "repo"
    /\ backend = "github"
    /\ base_branch_map' = get_base_branch_map.base_branch_map
    /\ branch_commits_caches' = get_base_branch_map.branch_commits_caches
    /\ pc' = "lineage"
    /\ UNCHANGED <<dedupVars, repoVars, unique_commits_map, callVars>>

InferLineageLocal ==
    /\ pc = "repo"
    /\ backend = "local"
    /\ base_branch_map' = get_base_branch_map_local
    /\ pc' = "lineage"
    /\ UNCHANGED <<dedupVars, repoVars, branch_commits_caches, unique_commits_map, callVars>>

ExtractUnique ==
    /\ pc = "lineage"
    /\ backend = "github"
    /\ unique_commits_map' = get_all_unique_commits(base_branch_map, branch_commits_caches)
    /\ pc' = "unique"
    /\ UNCHANGED <<dedupVars, repoVars, base_branch_map, branch_commits_caches, callVars>>

ExtractUniqueLocal ==
    /\ pc = "lineage"
    /\ backend = "local"
    /\ unique_commits_map' = get_all_unique_commits_local(base_branch_map)
    /\ pc' = "unique"
    /\ UNCHANGED <<dedupVars, repoVars, base_branch_map, branch_commits_caches, callVars>>

\* the rest of fetch_commits_from_github: the groups of the result, which are
\* the input of the deduplication pass
GroupByAuthor ==
    /\ pc = "unique"
    /\ backend = "github"
    /\ commits' = GroupCommits(unique_commits_map, start_date, end_date, branch_arg)
    /\ pc' = "input"
    /\ UNCHANGED <<deduped, rededuped, repoVars, lineageVars, callVars>>

NextLineage ==
    \/ InferLineage
    \/ InferLineageLocal
    \/ ExtractUnique
    \/ ExtractUniqueLocal
    \/ GroupByAuthor
    \/ Deduplicate

SpecLineage == InitLineage /\ [][NextLineage]_vars

(***************************************************************************)
(* fetch_commits_from_github on any branch -> commits map the API calls    *)
(* may hand it: the timestamps of the map are not bound to the window.     *)
(***************************************************************************)
InitFetch ==
    /\ pc = "unique"
    /\ backend = "github"
    /\ IdleCall
    /\ refs = <<>>
    /\ \E names \in SUBSET (1..Len(RefNames)) :
            /\ Cardinality(names) <= MaxBranches
            /\ \A i \in names : RefNames[i] # "HEAD"
            /\ \E content \in [names -> SUBSET Shas] :
                    unique_commits_map =
                        LET l == RefList(names, content)
                        IN  [k \in 1..Len(l) |->
                                [key |-> l[k].name, value |-> l[k].commits]]
    /\ start_date \in WindowStarts
    /\ end_date \in WindowEnds
    /\ branch_arg \in {None, "main"}
    /\ commits = <<>>
    /\ deduped = <<>>
    /\ rededuped = <<>>
    /\ base_branch_map = <<>>
    /\ branch_commits_caches = <<>>

NextFetch == GroupByAuthor

SpecFetch == InitFetch /\ [][NextFetch]_vars

(***************************************************************************)
(* Claims on lineage inference and unique-commit extraction.               *)
(***************************************************************************)
\* the branches of the repository as the backend names them: the hosted API
\* by the whole name, a clone by the last segment of the ref name
BranchKey(ref) == IF backend = "local" THEN LastSegment(ref.name) ELSE ref.name

BranchKeys == {BranchKey(refs[i]) : i \in 1..Len(refs)}

\* S(b): the commits of branch b inside the window, newest first; in a clone
\* where several refs end in b, those of the last such ref
S(b) ==
    LET last == CHOOSE i \in 1..Len(refs) :
                    /\ BranchKey(refs[i]) = b
                    /\ \A j \in 1..Len(refs) : BranchKey(refs[j]) = b => j <= i
    IN  InWindow(refs[last].commits)

\* the commits of cs whose id is not an id of a commit of base, in order
WithoutIdsOf(cs, base) == SelectSeq(cs, LAMBDA c : c.sha \notin CommitHashes(base))

LineageDone == pc \in {"lineage", "unique", "input", "deduped"}
UniqueDone == pc \in {"unique", "input", "deduped"}

\* C5: for every branch b whose inferred parent p is not None, the
\* unique-commit list of b is exactly the commits of b whose id is not an id
\* of a commit of p, in b's order.
C5_UniqueIsDifference ==
    UniqueDone =>
        \A b \in DictKeys(unique_commits_map) :
            LET p == DictGet(base_branch_map, b)
            IN  p # None => DictGet(unique_commits_map, b) = WithoutIdsOf(S(b), S(p))

\* |S(b) \cap S(o)|
Overlap(b, o) == Cardinality(CommitHashes(S(b)) \cap CommitHashes(S(o)))

\* C6: for every branch b with which another branch shares a commit id, the
\* inferred parent of b is another branch whose overlap with b is the
\* maximum over all other branches (hosted-API variant).
C6_ParentHasMaxOverlap ==
    (LineageDone /\ backend = "github") =>
        \A b \in BranchKeys :
            (\E o \in BranchKeys \ {b} : Overlap(b, o) > 0) =>
                LET p == DictGet(base_branch_map, b)
                IN  /\ p \in BranchKeys \ {b}
                    /\ \A o \in BranchKeys \ {b} : Overlap(b, o) <= Overlap(b, p)

\* C7: the inferred parent of b is None if and only if every other branch
\* has no commit id in common with b inside the window (get_base_branch_map).
C7_NoneIffNoOverlap ==
    (LineageDone /\ backend = "github") =>
        \A b \in BranchKeys :
            (DictGet(base_branch_map, b) = None)
                <=> (\A o \in BranchKeys \ {b} : Overlap(b, o) = 0)

\* three branches: one has commits but none inside the window and gets None,
\* another shares commits with the third and gets a parent
C7_Witness ==
    /\ pc = "lineage"
    /\ backend = "github"
    /\ Len(refs) = MaxBranches
    /\ \E i \in 1..Len(refs) :
            /\ refs[i].commits # <<>>
            /\ S(refs[i].name) = <<>>
            /\ DictGet(base_branch_map, refs[i].name) = None
    /\ \E b \in BranchKeys : DictGet(base_branch_map, b) # None

\* the ids of the groups of branch b in a list of groups
IdsOfBranch(groups, b) ==
    Ids(SelectSeq(groups, LAMBDA g : g.branch = b))

\* C8: on main = (A,B,C) and feature = (A,B,D), all inside the window and no
\* author filter, lineage(feature) = main, unique(feature) = {D},
\* unique(main) = {A,B,C}, and the deduplicated groups are main -> {A,B,C}
\* and feature -> {D}.
C8_EndToEnd ==
    (/\ pc = "deduped"
     /\ backend = "github"
     /\ refs = <<[name |-> "feature", commits |-> History({"A", "B", "D"})],
                 [name |-> "main", commits |-> History({"A", "B", "C"})]>>
     /\ start_date = 1
     /\ end_date = 4)
    =>
    (/\ DictGet(base_branch_map, "feature") = "main"
     /\ CommitHashes(DictGet(unique_commits_map, "feature")) = {"D"}
     /\ CommitHashes(DictGet(unique_commits_map, "main")) = {"A", "B", "C"}
     /\ IdsOfBranch(deduped, "main") = {"A", "B", "C"}
     /\ IdsOfBranch(deduped, "feature") = {"D"}
     /\ \A i \in 1..Len(deduped) : deduped[i].branch \in {"main", "feature"})

\* C9: every commit id of some S(b) is in the unique-commit list of at least
\* one branch.
C9_NoCommitDropped ==
    UniqueDone =>
        \A b \in BranchKeys : \A sha \in CommitHashes(S(b)) :
            \E i \in 1..Len(unique_commits_map) :
                sha \in CommitHashes(unique_commits_map[i].value)

(***************************************************************************)
(* Claims on fetch_commits_from_github.                                    *)
(***************************************************************************)
\* the ids of the commits of branch b by author a, in the map the loop
\* walks, whose timestamp is inside the window of the call
ExpectedIds(b, a) ==
    {c.sha : c \in {d \in CommitSet(DictGet(unique_commits_map, b)) :
                        /\ d.author = a
                        /\ start_date <= d.date
                        /\ d.date <= end_date}}

\* C10: every (branch, author) group of the result holds exactly that
\* branch's commits by that author inside the window the caller passed.
C10_GroupsUseCallersWindow ==
    pc = "input" =>
        \A b \in DictKeys(unique_commits_map) : \A a \in Authors :
            (branch_arg = None \/ branch_arg = b) =>
                LET groups == SelectSeq(commits,
                                LAMBDA g : g.branch = b /\ g.author = a)
                IN  IF ExpectedIds(b, a) = {}
                    THEN groups = <<>>
                    ELSE Len(groups) = 1 /\ Ids(groups) = ExpectedIds(b, a)

(***************************************************************************)
(* fetch_commits_from_local (repository.py:139-217).                       *)
(***************************************************************************)
\* branch_name.split("/", 1): the name, or its two parts around the first "/"
SplitOnce(name) ==
    IF name = "fix/feature" THEN <<"fix", "feature">> ELSE <<name>>

\* the loop over the authors of one branch: no sort, no filter, every group
\* is appended (len(commits) < 0 never holds)
RECURSIVE LocalAuthorLoop(_, _, _)
LocalAuthorLoop(branch_name, items, results) ==
    IF items = <<>> THEN results
    ELSE LET cs == Head(items).value
             messages == [i \in 1..Len(cs) |-> Message(cs[i].sha)]
         IN  LocalAuthorLoop(branch_name, Tail(items),
                Append(results,
                    [branch |-> branch_name,
                     author |-> Head(items).key,
                     start_date |-> cs[Len(cs)].date,
                     end_date |-> cs[1].date,
                     commit_messages |-> messages]))

\* the loop over the branch -> commits map; split("/", 1)[1] raises
\* IndexError on a name without "/"
RECURSIVE LocalBranchLoop(_, _, _)
LocalBranchLoop(items, wanted, results) ==
    IF items = <<>> THEN [results |-> results, raised |-> None]
    ELSE LET parts == SplitOnce(Head(items).key)
         IN  IF wanted # None /\ Len(parts) < 2
             THEN [results |-> <<>>, raised |-> "IndexError"]
             ELSE IF wanted # None /\ parts[2] # wanted
             THEN LocalBranchLoop(Tail(items), wanted, results)
             ELSE LocalBranchLoop(Tail(items), wanted,
                    LocalAuthorLoop(Head(items).key,
                        CommitsByAuthor(Head(items).value, <<>>), results))

\* the call, by the value of unique_commits: the default path stops at
\* remote_branch.contains("HEAD") on the first line of the branch listing,
\* a str has no method contains
fetch_commits_from_local(unique_commits_flag, wanted) ==
    IF unique_commits_flag
    THEN LET map == get_base_branch_map_local
             unique == get_all_unique_commits_local(map)
             out == LocalBranchLoop(unique, wanted, <<>>)
         IN  [base_branch_map |-> map, unique_commits_map |-> unique,
              results |-> out.results, raised |-> out.raised]
    ELSE [base_branch_map |-> <<>>, unique_commits_map |-> <<>>,
          results |-> <<>>, raised |-> "AttributeError"]

(***************************************************************************)
(* The two commit source adapters: fetch_commits_from_github on any map    *)
(* the API calls may hand it, fetch_commits_from_local on a clone.         *)
(***************************************************************************)
InitLocal ==
    /\ pc = "repo"
    /\ IdleSession
    /\ InitRefs
    /\ backend = "local"
    /\ branch_arg \in {None, "feature"}
    /\ unique_commits_arg \in BOOLEAN
    /\ raised = None
    /\ IdleMirror
    /\ IdleDispatch
    /\ IdleConfig
    /\ IdleDedup
    /\ IdleLineage

InitSource == InitFetch \/ InitLocal

FetchFromLocal ==
    /\ pc = "repo"
    /\ backend = "local"
    /\ LET out == fetch_commits_from_local(unique_commits_arg, branch_arg)
       IN  /\ base_branch_map' = out.base_branch_map
           /\ unique_commits_map' = out.unique_commits_map
           /\ commits' = out.results
           /\ raised' = out.raised
           /\ pc' = IF out.raised = None THEN "input" ELSE "raised"
    /\ UNCHANGED <<deduped, rededuped, repoVars, branch_commits_caches,
                   unique_commits_arg, dispatchVars, configVars, mirrorVars,
                   sessionVars>>

NextSource == GroupByAuthor \/ FetchFromLocal

SpecSource == InitSource /\ [][NextSource]_vars

(***************************************************************************)
(* Claims on the commit source adapters.                                   *)
(***************************************************************************)
\* the commits some branch of the data source holds outside the window
OutsideWindow ==
    {sha \in Shas :
        /\ ~(start_date <= CommitDate[sha] /\ CommitDate[sha] <= end_date)
        /\ \/ \E i \in 1..Len(refs) : sha \in CommitHashes(refs[i].commits)
           \/ /\ backend = "github"
              /\ \E i \in 1..Len(unique_commits_map) :
                    sha \in CommitHashes(unique_commits_map[i].value)}

\* C11: every commit of every group the adapters return has its timestamp
\* inside the window of the call, both ends included.
C11_ResultInsideWindow ==
    pc = "input" =>
        \A sha \in Ids(commits) :
            start_date <= CommitDate[sha] /\ CommitDate[sha] <= end_date

\* the hosted-API adapter returned groups from a map that holds commits
\* before the start and after the end of the window
C11_Witness ==
    /\ pc = "input"
    /\ backend = "github"
    /\ commits # <<>>
    /\ \E sha \in OutsideWindow : CommitDate[sha] < start_date
    /\ \E sha \in OutsideWindow : CommitDate[sha] > end_date

\* the clone adapter returned groups from a clone that holds commits outside
\* the window
C11_WitnessLocal ==
    /\ pc = "input"
    /\ backend = "local"
    /\ commits # <<>>
    /\ OutsideWindow # {}

(***************************************************************************)
(* fetch_commits_from_remote (repository.py:220-294): the cached mirror of *)
(* a remote repository.  Times are in days.                                *)
(***************************************************************************)
\* cache_duration = 7, the value used when none is configured
DefaultCacheDuration == 7

\* the values config.get("general", "cache_duration") may return: a
\* ConfigParser hands out strings, get_config_value None on a missing key
ConfiguredDurations == {None, "", "1", "7"}

\* the number of days a configured value spells
DaysOf == ("1" :> 1) @@ ("7" :> 7)

\* now - lastModified(path) of a mirror that exists when the call starts
Ages == {0, 1, 2, 6, 7, 8}

\* an entry of ops: the operation, the value it returned (0 when it returns
\* none) and whether it succeeded
Op(name, arg, ok) == [op |-> name, arg |-> arg, ok |-> ok]

\* cache_timestamp + timedelta(days=cache_duration), after the default of
\* lines 244-246: timedelta raises TypeError on a str
CacheExpiry(duration, cache_timestamp) ==
    IF duration = None \/ duration = ""
    THEN [raised |-> None, value |-> cache_timestamp + DefaultCacheDuration]
    ELSE [raised |-> "TypeError", value |-> 0]

IsExpiredAlways(cache_expiry, t) == TRUE

\* not (cache_expiry > datetime.now())
IsExpired(cache_expiry, t) == ~(cache_expiry > t)

\* repo is None
IsNone(repo) == repo = None

FetchNothing(log, ok) == log

\* repo.git.fetch(all=True)
FetchAll(log, ok) == Append(log, Op("fetch", 0, ok))

\* lines 261-277: the look at the cache path
RemoteCheck ==
    /\ pc = "remote"
    /\ callee = "fetch_commits_from_remote"
    /\ IF mirror = "absent"
       THEN /\ ops' = Append(ops, Op("exists", 0, TRUE))
            /\ pc' = IF IsNone(None) THEN "clone" ELSE "fetch"
            /\ UNCHANGED <<mirror, raised>>
       ELSE LET seen == ops \o <<Op("exists", 1, TRUE), Op("getmtime", mtime, TRUE)>>
                cache_expiry == CacheExpiry(cache_duration, mtime)
            IN  IF cache_expiry.raised # None
                THEN /\ ops' = seen
                     /\ raised' = cache_expiry.raised
                     /\ pc' = "raised"
                     /\ UNCHANGED mirror
                ELSE IF ~IsExpired(cache_expiry.value, now)
                THEN \* Repo(repo_cache_dir)
                     IF mirror = "partial"
                     THEN /\ ops' = Append(seen, Op("open", 0, FALSE))
                          /\ raised' = "InvalidGitRepositoryError"
                          /\ pc' = "raised"
                          /\ UNCHANGED mirror
                     ELSE /\ ops' = Append(seen, Op("open", 0, TRUE))
                          /\ pc' = IF IsNone("Repo") THEN "clone" ELSE "fetch"
                          /\ UNCHANGED <<mirror, raised>>
                ELSE \* shutil.rmtree(repo_cache_dir)
                     /\ ops' = Append(seen, Op("rmtree", 0, TRUE))
                     /\ mirror' = "absent"
                     /\ pc' = IF IsNone(None) THEN "clone" ELSE "fetch"
                     /\ UNCHANGED raised
    /\ UNCHANGED <<dedupVars, repoVars, lineageVars, unique_commits_arg, dispatchVars, configVars,
                   callee, cache_duration, mtime, now,
                   sessionVars>>

\* lines 279-282: Repo.clone_from; a clone that fails leaves what git left
\* at the path, nothing or a partial directory
RemoteClone ==
    /\ pc = "clone"
    /\ callee = "fetch_commits_from_remote"
    /\ \E ok \in BOOLEAN :
        /\ ops' = Append(ops, Op("clone", 0, ok))
        /\ IF ok
           THEN /\ mirror' = "clone"
                /\ mtime' = now
                /\ pc' = "fetch"
                /\ UNCHANGED raised
           ELSE /\ \E left \in {mirror, "partial"} :
                        /\ mirror' = left
                        /\ mtime' = IF left = mirror THEN mtime ELSE now
                /\ raised' = "GitCommandError"
                /\ pc' = "raised"
    /\ UNCHANGED <<dedupVars, repoVars, lineageVars, unique_commits_arg, dispatchVars, configVars,
                   callee, cache_duration, now,
                   sessionVars>>

\* line 283 after a clone, line 287 on a mirror that was reused
RemoteFetch ==
    /\ pc = "fetch"
    /\ callee = "fetch_commits_from_remote"
    /\ \E ok \in BOOLEAN :
        /\ ops' = FetchAll(ops, ok)
        /\ IF ok
           THEN pc' = "read" /\ UNCHANGED raised
           ELSE pc' = "raised" /\ raised' = "GitCommandError"
    /\ UNCHANGED <<dedupVars, repoVars, lineageVars, unique_commits_arg, dispatchVars, configVars,
                   callee, cache_duration, mirror, mtime, now,
                   sessionVars>>

\* lines 291-294: fetch_commits_from_local(repo_cache_dir, start_date,
\* end_date, branch, author), then the return
RemoteRead ==
    /\ pc = "read"
    /\ callee = "fetch_commits_from_remote"
    /\ ops' = Append(ops, Op("read", 0, TRUE))
    /\ LET out == fetch_commits_from_local(FALSE, branch_arg)
       IN  /\ commits' = out.results
           /\ raised' = out.raised
           /\ pc' = IF out.raised = None THEN "returned" ELSE "raised"
    /\ UNCHANGED <<deduped, rededuped, repoVars, lineageVars, unique_commits_arg, dispatchVars, configVars,
                   callee, cache_duration, mirror, mtime, now,
                   sessionVars>>

(***************************************************************************)
(* get_commits_from_cloned_repo under fetch_commits_from_remote_repo       *)
(* (app.py:153-224): the clone directory of the command line entry point.  *)
(* Both functions turn every exception into the result ([], []).           *)
(***************************************************************************)
\* app.py:204-209
AppCheck ==
    /\ pc = "remote"
    /\ callee = "get_commits_from_cloned_repo"
    /\ IF mirror = "absent"
       THEN /\ ops' = Append(ops, Op("exists", 0, TRUE))
            /\ pc' = "clone"
            /\ UNCHANGED commits
       ELSE IF mirror = "partial"
       THEN /\ ops' = ops \o <<Op("exists", 1, TRUE), Op("open", 0, FALSE)>>
            /\ commits' = <<>>
            /\ pc' = "returned"
       ELSE /\ ops' = ops \o <<Op("exists", 1, TRUE), Op("open", 0, TRUE)>>
            /\ pc' = "fetch"
            /\ UNCHANGED commits
    /\ UNCHANGED <<deduped, rededuped, repoVars, lineageVars, unique_commits_arg, dispatchVars, configVars,
                   raised, callee, cache_duration, mirror, mtime, now,
                   sessionVars>>

\* app.py:210, and the except clauses of lines 219-224
AppClone ==
    /\ pc = "clone"
    /\ callee = "get_commits_from_cloned_repo"
    /\ \E ok \in BOOLEAN :
        /\ ops' = Append(ops, Op("clone", 0, ok))
        /\ IF ok
           THEN /\ mirror' = "clone"
                /\ mtime' = now
                /\ pc' = "fetch"
                /\ UNCHANGED commits
           ELSE /\ \E left \in {mirror, "partial"} :
                        /\ mirror' = left
                        /\ mtime' = IF left = mirror THEN mtime ELSE now
                /\ commits' = <<>>
                /\ pc' = "returned"
    /\ UNCHANGED <<deduped, rededuped, repoVars, lineageVars, unique_commits_arg, dispatchVars, configVars,
                   raised, callee, cache_duration, now,
                   sessionVars>>

\* app.py:207 and 211, and the except clauses of lines 219-224
AppFetch ==
    /\ pc = "fetch"
    /\ callee = "get_commits_from_cloned_repo"
    /\ \E ok \in BOOLEAN :
        /\ ops' = FetchAll(ops, ok)
        /\ IF ok
           THEN pc' = "read" /\ UNCHANGED commits
           ELSE pc' = "returned" /\ commits' = <<>>
    /\ UNCHANGED <<deduped, rededuped, repoVars, lineageVars, unique_commits_arg, dispatchVars, configVars,
                   raised, callee, cache_duration, mirror, mtime, now,
                   sessionVars>>

\* fetch_commits_from_repo (app.py:227-254): the commits of every branch
\* inside the window, branch after branch
RECURSIVE fetch_commits_from_repo(_)
fetch_commits_from_repo(branches) ==
    IF branches = <<>> THEN <<>>
    ELSE InWindow(Head(branches).commits) \o fetch_commits_from_repo(Tail(branches))

\* app.py:213-218
AppRead ==
    /\ pc = "read"
    /\ callee = "get_commits_from_cloned_repo"
    /\ ops' = Append(ops, Op("read", 0, TRUE))
    /\ commits' = IF branch_arg # None /\ ~RefExists(branch_arg)
                  THEN <<>>
                  ELSE fetch_commits_from_repo(refs)
    /\ pc' = "returned"
    /\ UNCHANGED <<deduped, rededuped, repoVars, lineageVars, unique_commits_arg, dispatchVars, configVars,
                   raised, callee, cache_duration, mirror, mtime, now,
                   sessionVars>>

(***************************************************************************)
(* One call that obtains the mirror of a remote and reads its commits.     *)
(***************************************************************************)
InitRemote ==
    /\ pc = "remote"
    /\ IdleSession
    /\ callee \in {"fetch_commits_from_remote", "get_commits_from_cloned_repo"}
    /\ cache_duration \in ConfiguredDurations
    /\ now \in {8, 9}
    /\ \/ mirror = "absent" /\ mtime = 0
       \/ mirror \in {"clone", "partial"} /\ \E age \in Ages : mtime = now - age
    /\ ops = <<>>
    /\ raised = None
    /\ unique_commits_arg = FALSE
    /\ backend = "local"
    /\ refs \in {<<>>, <<[name |-> "main", commits |-> History(Shas)]>>}
    /\ start_date \in WindowStarts
    /\ end_date \in WindowEnds
    /\ branch_arg = None
    /\ IdleDispatch
    /\ IdleConfig
    /\ IdleDedup
    /\ IdleLineage

NextRemote ==
    \/ RemoteCheck
    \/ RemoteClone
    \/ RemoteFetch
    \/ RemoteRead
    \/ AppCheck
    \/ AppClone
    \/ AppFetch
    \/ AppRead

SpecRemote == InitRemote /\ [][NextRemote]_vars

(***************************************************************************)
(* Claims on the cached mirror.                                            *)
(***************************************************************************)
HasOp(name) == \E i \in 1..Len(ops) : ops[i].op = name

\* the call is fetch_commits_from_remote and found a directory at the cache
\* path
FoundMirror ==
    /\ callee = "fetch_commits_from_remote"
    /\ Len(ops) >= 2
    /\ ops[1] = Op("exists", 1, TRUE)

\* age = now - lastModified(path), as the call saw it
AgeAtCheck == now - ops[2].arg

\* the TTL the configuration asks for, in days
Ttl ==
    IF cache_duration = None \/ cache_duration = ""
    THEN DefaultCacheDuration
    ELSE DaysOf[cache_duration]

\* C12: for a mirror that exists when fetch_commits_from_remote starts, age
\* < TTL means the mirror is opened and neither deleted nor cloned, and age
\* >= TTL (age = TTL included) means the directory is deleted and then
\* cloned afresh.
C12_TtlBoundary ==
    (FoundMirror /\ \A i \in 1..Len(ops) : ops[i].op = "open" => ops[i].ok) =>
        IF AgeAtCheck < Ttl
        THEN /\ HasOp("open")
             /\ ~HasOp("rmtree")
             /\ ~HasOp("clone")
        ELSE /\ Len(ops) >= 3
             /\ ops[3].op = "rmtree"
             /\ ~HasOp("open")
             /\ pc # "clone" => (Len(ops) >= 4 /\ ops[4].op = "clone")

\* C13: whenever fetch_commits_from_remote reads the commits of the mirror,
\* a fetch of all branches succeeded before the read, and on a cache miss
\* the clone came before that fetch.
C13_FetchBeforeRead ==
    callee = "fetch_commits_from_remote" =>
        \A i \in 1..Len(ops) :
            ops[i].op = "read" =>
                \E j \in 1..(i - 1) :
                    /\ ops[j] = Op("fetch", 0, TRUE)
                    /\ \A k \in 1..Len(ops) : ops[k].op = "clone" => k < j

\* the commits were read from a mirror that was reused
C13_Witness ==
    /\ callee = "fetch_commits_from_remote"
    /\ HasOp("open")
    /\ HasOp("read")

\* the commits were read from a mirror that had expired and was cloned again
C13_WitnessMiss ==
    /\ callee = "fetch_commits_from_remote"
    /\ HasOp("rmtree")
    /\ HasOp("clone")
    /\ HasOp("read")

\* C14: when the mirror exists with age < TTL, fetch_commits_from_remote
\* makes no network call, neither a clone nor a fetch.
C14_NoNetworkOnHit ==
    (FoundMirror /\ AgeAtCheck < Ttl) =>
        \A i \in 1..Len(ops) : ops[i].op \notin {"clone", "fetch"}

\* C14, amended: when the mirror exists with age < TTL and the call gets to
\* read the commits, the mirror was opened, not deleted and not cloned, and
\* exactly one network call, a fetch of all branches, was made between the
\* age check and the read.
C14_OneFetchOnHit ==
    (FoundMirror /\ AgeAtCheck < Ttl /\ HasOp("read")) =>
        ops = <<Op("exists", 1, TRUE), Op("getmtime", now - AgeAtCheck, TRUE),
                Op("open", 0, TRUE), Op("fetch", 0, TRUE), Op("read", 0, TRUE)>>

\* a mirror one day short of the TTL was reused and read
C14_Witness ==
    /\ FoundMirror
    /\ AgeAtCheck = Ttl - 1
    /\ HasOp("read")
    /\ pc = "raised"

\* C15: when the clone, or the fetch that follows it, fails, the call raises
\* with no directory left at the cache path.
C15_NoMirrorAfterFailedClone ==
    (/\ callee = "fetch_commits_from_remote"
     /\ pc = "raised"
     /\ HasOp("clone")
     /\ \E i \in 1..Len(ops) : ops[i].op \in {"clone", "fetch"} /\ ~ops[i].ok)
    => mirror = "absent"

\* C16: a call in which a clone or a fetch failed does not return a result.
C16_FailureSurfaced ==
    pc = "returned" =>
        \A i \in 1..Len(ops) : ops[i].op \in {"clone", "fetch"} => ops[i].ok

(***************************************************************************)
(* Locators.  A locator is the sequence of the pieces its string is made   *)
(* of, so that str.startswith is the prefix test on sequences: a scheme, a *)
(* host, a separator and an owner/repository part, in any combination.     *)
(***************************************************************************)
Schemes == {"https://", "http://", "git@", "/"}
Hosts == {"github.com", "gitlab.com", "example.com"}
Separators == {"/", ":"}
Rests == {"owner", "owner/repo", "owner/repo.git"}
Pieces == Schemes \cup Hosts \cup Separators

Locators ==
    LET heads == UNION {[1..n -> Pieces] : n \in 0..3}
    IN  heads \cup {Append(h, r) : h \in [1..3 -> Pieces], r \in Rests}

\* the access tokens a request may carry: none, the empty string, a token
AccessTokens == {None, "", "token"}

\* repo_path.startswith(prefix)
StartsWith(path, prefix) ==
    /\ Len(prefix) <= Len(path)
    /\ SubSeq(path, 1, Len(prefix)) = prefix

\* repo_path.startswith((prefix, ...))
StartsWithAny(path, prefixes) == \E prefix \in prefixes : StartsWith(path, prefix)

GithubPrefixes ==
    {<<"https://", "github.com", "/">>, <<"http://", "github.com", "/">>,
     <<"git@", "github.com", ":">>}

GitlabPrefixes ==
    {<<"https://", "gitlab.com", "/">>, <<"http://", "gitlab.com", "/">>,
     <<"git@", "gitlab.com", ":">>}

RemotePrefixes == {<<"https://">>, <<"http://">>, <<"git@">>}

get_repository_type_by_scheme(path) ==
    IF StartsWithAny(path, RemotePrefixes) THEN "remote"
    ELSE IF StartsWithAny(path, GithubPrefixes) THEN "github"
    ELSE IF StartsWithAny(path, GitlabPrefixes) THEN "gitlab"
    ELSE "local"

\* utils.py:84-101
get_repository_type(path) ==
    IF StartsWithAny(path, GithubPrefixes) THEN "github"
    ELSE IF StartsWithAny(path, GitlabPrefixes) THEN "gitlab"
    ELSE IF StartsWithAny(path, RemotePrefixes) THEN "remote"
    ELSE "local"

\* utils.py:104-131: re.match of https?://github\.com/([^/]+)/([^/]+), then
\* of git@github\.com:([^/]+)/([^/]+)\.git; owner/repo, or None
extract_owner_repo(github_link) ==
    IF /\ Len(github_link) = 4
       /\ StartsWithAny(github_link, {<<"https://", "github.com", "/">>,
                                      <<"http://", "github.com", "/">>})
       /\ github_link[4] \in {"owner/repo", "owner/repo.git"}
    THEN github_link[4]
    ELSE IF /\ Len(github_link) = 4
            /\ StartsWith(github_link, <<"git@", "github.com", ":">>)
            /\ github_link[4] = "owner/repo.git"
    THEN "owner/repo"
    ELSE None

\* utils.py:66-81: the exception validate_arguments raises, or None
validate_arguments(path, from, to) ==
    IF path = <<>> THEN "ValueError"
    ELSE IF from > to THEN "ValueError"
    ELSE None

\* not access_token
IsFalsy(token) == token = None \/ token = ""

\* repository.py:38-53: the backend function fetch_commits hands the request
\* to, or the exception it raises; with no branch taken it returns None
fetch_commits(path, token, type) ==
    IF type = "github"
    THEN IF IsFalsy(token)
         THEN [called |-> "fetch_commits_from_remote", raised |-> None]
         ELSE IF extract_owner_repo(path) = None
         THEN [called |-> None, raised |-> "ValueError"]
         ELSE [called |-> "fetch_commits_from_github", raised |-> None]
    ELSE IF type = "gitlab"
    THEN [called |-> "fetch_commits_from_remote", raised |-> None]
    ELSE IF type = "local"
    THEN [called |-> "fetch_commits_from_local", raised |-> None]
    ELSE IF type = "remote"
    THEN [called |-> "fetch_commits_from_remote", raised |-> None]
    ELSE [called |-> None, raised |-> None]

\* app.py:306: repo_path.rstrip("/").split("/")[-2:] unpacks into two names
\* when the string holds a "/" after its trailing ones are stripped
SplitsInTwo(path) ==
    \/ path[1] \in {"https://", "http://"}
    \/ Len(path) = 4 /\ path[4] # "owner"

\* app.py:300-323: the backend function generate_commit_summary hands the
\* request to, or the exception it raises
generate_commit_summary(path, token) ==
    IF StartsWithAny(path, GithubPrefixes)
    THEN IF token = None
         THEN [called |-> None, raised |-> "ValueError"]
         ELSE IF ~SplitsInTwo(path)
         THEN [called |-> None, raised |-> "ValueError"]
         ELSE [called |-> "fetch_commits_from_github_repo", raised |-> None]
    ELSE IF StartsWithAny(path, RemotePrefixes)
    THEN [called |-> "fetch_commits_from_remote_repo", raised |-> None]
    ELSE [called |-> "fetch_commits_from_local_repo", raised |-> None]

(***************************************************************************)
(* A request: a locator, a date window and an access token, handed to      *)
(* fetch_commits (after the caller classified the locator), to             *)
(* generate_commit_summary of the command line, or to validate_arguments.  *)
(***************************************************************************)
InitRequest ==
    /\ pc = "request"
    /\ IdleSession
    /\ callee \in {"fetch_commits", "generate_commit_summary", "validate_arguments"}
    /\ repo_path \in Locators
    /\ access_token \in AccessTokens
    /\ repo_type = None
    /\ called = None
    /\ raised = None
    /\ start_date \in WindowStarts
    /\ end_date \in WindowStarts
    /\ backend = "none"
    /\ refs = <<>>
    /\ branch_arg = None
    /\ unique_commits_arg = FALSE
    /\ cache_duration = None
    /\ mirror = "absent"
    /\ mtime = 0
    /\ now = 0
    /\ ops = <<>>
    /\ IdleConfig
    /\ IdleDedup
    /\ IdleLineage

\* repo_type = get_repository_type(repo_url) (streamlit_app.py:46)
Classify ==
    /\ pc = "request"
    /\ callee = "fetch_commits"
    /\ repo_type' = get_repository_type(repo_path)
    /\ pc' = "classified"
    /\ UNCHANGED <<dedupVars, repoVars, lineageVars, unique_commits_arg, raised,
                   mirrorVars, repo_path, access_token, called, configVars,
                   sessionVars>>

FetchCommits ==
    /\ pc = "classified"
    /\ LET out == fetch_commits(repo_path, access_token, repo_type)
       IN  /\ called' = out.called
           /\ raised' = out.raised
           /\ pc' = IF out.raised = None THEN "dispatched" ELSE "raised"
    /\ UNCHANGED <<dedupVars, repoVars, lineageVars, unique_commits_arg,
                   mirrorVars, repo_path, access_token, repo_type, configVars,
                   sessionVars>>

GenerateCommitSummary ==
    /\ pc = "request"
    /\ callee = "generate_commit_summary"
    /\ LET out == generate_commit_summary(repo_path, access_token)
       IN  /\ called' = out.called
           /\ raised' = out.raised
           /\ pc' = IF out.raised = None THEN "dispatched" ELSE "raised"
    /\ UNCHANGED <<dedupVars, repoVars, lineageVars, unique_commits_arg,
                   mirrorVars, repo_path, access_token, repo_type, configVars,
                   sessionVars>>

ValidateArguments ==
    /\ pc = "request"
    /\ callee = "validate_arguments"
    /\ raised' = validate_arguments(repo_path, start_date, end_date)
    /\ pc' = "validated"
    /\ UNCHANGED <<dedupVars, repoVars, lineageVars, unique_commits_arg,
                   mirrorVars, dispatchVars, configVars,
                   sessionVars>>

NextRequest ==
    \/ Classify
    \/ FetchCommits
    \/ GenerateCommitSummary
    \/ ValidateArguments

SpecRequest == InitRequest /\ [][NextRequest]_vars

(***************************************************************************)
(* Claims on requests.                                                     *)
(***************************************************************************)
Handled == pc \in {"dispatched", "raised"}

\* C17: a request for a GitHub locator with no access token is not
\* rejected: it is handed to the function that serves generic remotes, and
\* no exception is raised.
C17_FallsBackWithoutToken ==
    (Handled /\ StartsWithAny(repo_path, GithubPrefixes) /\ access_token = None) =>
        /\ raised = None
        /\ called \in {"fetch_commits_from_remote", "fetch_commits_from_remote_repo"}

\* C18: a request with start_date > end_date is rejected with ValueError
\* before any backend is called, and validate_arguments raises exactly when
\* the repository path is empty or start_date > end_date (start_date =
\* end_date is accepted).
C18_WindowValidated ==
    /\ (Handled /\ callee = "fetch_commits" /\ start_date > end_date) =>
            (raised = "ValueError" /\ called = None)
    /\ pc = "validated" =>
            (raised = "ValueError" <=> (repo_path = <<>> \/ start_date > end_date))

\* the class the prefixes of a locator put it in
ClassOf(path) ==
    CHOOSE class \in {"github", "gitlab", "remote", "local"} :
        /\ class = "github" <=> StartsWithAny(path, GithubPrefixes)
        /\ class = "gitlab" <=>
                /\ ~StartsWithAny(path, GithubPrefixes)
                /\ StartsWithAny(path, GitlabPrefixes)
        /\ class = "local" <=> ~StartsWithAny(path, RemotePrefixes)

\* the backend function each class is served by
BackendOf(class, token) ==
    IF class = "github" /\ ~IsFalsy(token) THEN "fetch_commits_from_github"
    ELSE IF class = "local" THEN "fetch_commits_from_local"
    ELSE "fetch_commits_from_remote"

Classified == callee = "fetch_commits" /\ pc # "request"

\* C19: the locator is classified by its prefix with the priority github,
\* gitlab, remote, local, and fetch_commits hands every request to exactly
\* one backend, the one of its class.
C19_OneBackendPerClass ==
    Classified =>
        /\ repo_type = ClassOf(repo_path)
        /\ pc # "classified" => called = BackendOf(repo_type, access_token)

\* C19, amended: the locator is classified by its prefix with the priority
\* github, gitlab, remote, local; fetch_commits hands the request to the one
\* backend of its class, except that a GitHub locator with a token and
\* without a well-formed owner/repository part raises ValueError and reaches
\* no backend.
C19_OneBackendOrInvalidLink ==
    Classified =>
        /\ repo_type = ClassOf(repo_path)
        /\ pc # "classified" =>
            IF /\ repo_type = "github"
               /\ ~IsFalsy(access_token)
               /\ extract_owner_repo(repo_path) = None
            THEN raised = "ValueError" /\ called = None
            ELSE raised = None /\ called = BackendOf(repo_type, access_token)

\* a GitHub locator in its git@ form with a token reached the hosted API,
\* though it starts with the generic prefix git@ as well
C19_Witness ==
    /\ pc = "dispatched"
    /\ callee = "fetch_commits"
    /\ StartsWith(repo_path, <<"git@", "github.com", ":">>)
    /\ access_token = "token"
    /\ called = "fetch_commits_from_github"

(***************************************************************************)
(* The configuration file (config.py).  A configuration is a function from *)
(* its (section, key) options to their values; config_file tells whether   *)
(* the file exists and which configuration it holds.                       *)
(***************************************************************************)
GithubToken == <<"github", "access_token">>

\* DEFAULT_CONFIG (config.py:11-24)
DEFAULT_CONFIG ==
    (<<"openai", "api_key">> :> "insert_your_api_key_here")
    @@ (<<"openai", "model">> :> "gpt-3.5-turbo")
    @@ (<<"openai", "base_url">> :> "https://api.openai.com/v1")
    @@ (<<"general", "cache_dir">> :> "")
    @@ (<<"general", "cache_duration">> :> "7")
    @@ (GithubToken :> "")

\* the options and values a file written by hand may hold, and the options
\* and values a call may set
FileOptions == {GithubToken, <<"general", "cache_dir">>}
FileValues == {"", "old", " old"}
SetOptions == {GithubToken, <<"general", "cache_dir">>, <<"gitlab", "access_token">>}
SetValues == {"gho_1", "gho_2"}

\* no file at CONFIG_FILE
NoFile == [exists |-> FALSE, options |-> [option \in {} |-> ""]]

File(config) == [exists |-> TRUE, options |-> config]

ConfigFiles ==
    {NoFile, File(DEFAULT_CONFIG)}
        \cup {File(config) :
                config \in UNION {[options -> FileValues] : options \in SUBSET FileOptions}}

\* config.write: every option as a line "key = value"
WriteConfig(config) == File(config)

\* config.read: the value of a line, without the white space around it
ReadValue(text) == IF text = " old" THEN "old" ELSE text

ReadConfig(file) ==
    [option \in DOMAIN file.options |-> ReadValue(file.options[option])]

\* load_config_from_file (config.py:55-70): the configuration, and the file
\* after the call (the defaults are saved when there was none)
load_config_from_file(file) ==
    IF ~file.exists
    THEN [config |-> DEFAULT_CONFIG, file |-> WriteConfig(DEFAULT_CONFIG)]
    ELSE [config |-> ReadConfig(file), file |-> file]

\* config.set(section, key, value), after add_section where needed
ConfigSet(config, option, value) ==
    [o \in DOMAIN config \cup {option} |-> IF o = option THEN value ELSE config[o]]

\* set_config_value (config.py:115-128): the configuration it loaded and
\* changed, which it does not save, and the file after the call
set_config_value(file, option, value) ==
    LET loaded == load_config_from_file(file)
    IN  [config |-> ConfigSet(loaded.config, option, value), file |-> loaded.file]

\* get_config_value (config.py:98-112): config.get(section, key,
\* fallback=None) on a fresh load, and the file after the call
get_config_value(file, option) ==
    LET loaded == load_config_from_file(file)
    IN  [value |-> IF option \in DOMAIN loaded.config
                   THEN loaded.config[option] ELSE None,
         file |-> loaded.file]

\* grant_github_auth (config.py:131-154), on the token poll_for_token
\* returned: the file after the call.  save_config_to_file writes the
\* configuration loaded at line 135
grant_github_auth(file, token) ==
    LET loaded == load_config_from_file(file)
        after_set == set_config_value(loaded.file, GithubToken, token).file
    IN  IF token # None THEN WriteConfig(loaded.config) ELSE loaded.file

InitConfig ==
    /\ pc = "config"
    /\ IdleSession
    /\ config_file \in ConfigFiles
    /\ set_option \in SetOptions
    /\ set_value \in SetValues
    /\ got_value = None
    /\ unique_commits_arg = FALSE
    /\ raised = None
    /\ IdleMirror
    /\ IdleDispatch
    /\ IdleDedup
    /\ IdleRepo
    /\ IdleLineage

SetConfigValue ==
    /\ pc = "config"
    /\ config_file' = set_config_value(config_file, set_option, set_value).file
    /\ pc' = "stored"
    /\ UNCHANGED <<dedupVars, repoVars, lineageVars, unique_commits_arg, raised,
                   mirrorVars, dispatchVars, set_option, set_value, got_value,
                   sessionVars>>

\* poll_for_token returns a token, or None when the login fails
GrantGithubAuth ==
    /\ pc = "config"
    /\ \E token \in SetValues \cup {None} :
        /\ config_file' = grant_github_auth(config_file, token)
        /\ set_option' = GithubToken
        /\ set_value' = token
        /\ pc' = IF token # None THEN "stored" ELSE "failed"
    /\ UNCHANGED <<dedupVars, repoVars, lineageVars, unique_commits_arg, raised,
                   mirrorVars, dispatchVars, got_value,
                   sessionVars>>

GetConfigValue ==
    /\ pc = "stored"
    /\ LET out == get_config_value(config_file, set_option)
       IN  /\ got_value' = out.value
           /\ config_file' = out.file
    /\ pc' = "got"
    /\ UNCHANGED <<dedupVars, repoVars, lineageVars, unique_commits_arg, raised,
                   mirrorVars, dispatchVars, set_option, set_value,
                   sessionVars>>

NextConfig == SetConfigValue \/ GrantGithubAuth \/ GetConfigValue

SpecConfig == InitConfig /\ [][NextConfig]_vars

(***************************************************************************)
(* Claims on the configuration file.                                       *)
(***************************************************************************)
\* C20: get_config_value(section, key) after set_config_value(section, key,
\* v) returns v, and get_config_value('github', 'access_token') after a
\* grant_github_auth that obtained a token returns that token.
C20_GetReturnsWhatWasSet == pc = "got" => got_value = set_value

(***************************************************************************)
(* Further claims on lineage inference and unique-commit extraction.       *)
(***************************************************************************)
\* the branch has no usable parent: None, or in a clone a name that is not
\* the name of a remote ref
HasNoBase(b) ==
    LET p == DictGet(base_branch_map, b)
    IN  p = None \/ (backend = "local" /\ ~RefExists(p))

\* C21: for every branch whose inferred parent is None, or in a clone is
\* not an existing remote ref, the unique-commit list is the whole
\* in-window commit list of the branch, in the same order.
C21_FullListWithoutBase ==
    UniqueDone =>
        \A b \in DictKeys(unique_commits_map) :
            HasNoBase(b) => DictGet(unique_commits_map, b) = S(b)

\* a clone in which a branch with several in-window commits, and commits
\* outside the window, got a parent name that names no ref
C21_Witness ==
    /\ pc = "unique"
    /\ backend = "local"
    /\ \E b \in DictKeys(unique_commits_map) :
            /\ DictGet(base_branch_map, b) # None
            /\ HasNoBase(b)
            /\ Len(S(b)) >= 2
            /\ \E i \in 1..Len(refs) :
                    BranchKey(refs[i]) = b /\ Len(refs[i].commits) > Len(S(b))

(***************************************************************************)
(* A hosted repository with four branches: the smallest in which two       *)
(* branches can tie for the largest overlap behind a third one.            *)
(***************************************************************************)
TieBranches == <<"dev", "feature", "fix/feature", "main">>

\* the commits these branches hold
TieShas == {"A", "B", "C"}

InitTies ==
    /\ pc = "repo"
    /\ backend = "github"
    /\ \E content \in [1..Len(TieBranches) -> SUBSET TieShas] :
            refs = [k \in 1..Len(TieBranches) |->
                        [name |-> TieBranches[k], commits |-> History(content[k])]]
    /\ start_date \in WindowStarts
    /\ end_date \in WindowEnds
    /\ branch_arg = None
    /\ IdleCall
    /\ commits = <<>>
    /\ deduped = <<>>
    /\ rededuped = <<>>
    /\ base_branch_map = <<>>
    /\ branch_commits_caches = <<>>
    /\ unique_commits_map = <<>>

NextTies == InferLineage

SpecTies == InitTies /\ [][NextTies]_vars

\* the largest overlap of b with another branch
MaxOverlap(b) ==
    CHOOSE m \in 0..Cardinality(Shas) :
        /\ \A o \in BranchKeys \ {b} : Overlap(b, o) <= m
        /\ m = 0 \/ \E o \in BranchKeys \ {b} : Overlap(b, o) = m

\* the positions, in the branch listing, of the other branches whose overlap
\* with b is the largest
TiedPositions(b) ==
    {i \in 1..Len(refs) : refs[i].name # b /\ Overlap(b, refs[i].name) = MaxOverlap(b)}

\* C22: when several other branches are tied for the maximal nonzero overlap
\* with branch b, the inferred parent of b is the tied branch that comes
\* first in the branch iteration order (hosted-API variant).
C22_FirstTiedIsParent ==
    (LineageDone /\ backend = "github") =>
        \A b \in BranchKeys :
            (MaxOverlap(b) > 0 /\ Cardinality(TiedPositions(b)) >= 2) =>
                DictGet(base_branch_map, b) = refs[Min(TiedPositions(b))].name

(***************************************************************************)
(* Further claims on remove_duplicated_commits.                            *)
(***************************************************************************)
\* a list of groups in author order, the 'main' groups of an author ahead of
\* the author's other groups
InAuthorOrder(order) ==
    \A i, j \in 1..Len(order) :
        i < j =>
            /\ AuthorRank(order[i].author) <= AuthorRank(order[j].author)
            /\ (order[i].author = order[j].author /\ order[j].branch = main_branch)
                    => order[i].branch = main_branch

\* C23: remove_duplicated_commits walks the groups in author order: all
\* groups of one author before any group of a later author, and within one
\* author's groups the 'main' group first; the groups it returns come in
\* that order too.
C23_WalkedInAuthorOrder ==
    pc = "deduped" =>
        /\ InAuthorOrder(EvaluationOrder(commits))
        /\ InAuthorOrder(deduped)

\* the message at position j of group i is the first occurrence of its id
\* in the walk over order
IsFirstOccurrence(order, i, j) ==
    \A p \in Positions(order, order[i].commit_messages[j].sha) :
        p[1] > i \/ (p[1] = i /\ p[2] >= j)

\* group i of order with the first occurrences only, in their order
KeptOf(order, i) ==
    LET messages == order[i].commit_messages
        kept == SelectSeq([j \in 1..Len(messages) |-> j],
                          LAMBDA j : IsFirstOccurrence(order, i, j))
    IN  [order[i] EXCEPT !.commit_messages = [k \in 1..Len(kept) |-> messages[kept[k]]]]

\* the groups of the walk that keep a commit, in the order of the walk
RetainedGroups(groups) ==
    LET order == EvaluationOrder(groups)
    IN  SelectSeq([i \in 1..Len(order) |-> KeptOf(order, i)],
                  LAMBDA g : g.commit_messages # <<>>)

\* C24: a group is in the output of remove_duplicated_commits if and only if
\* at least one of its commits is the first occurrence of its id in the
\* evaluation order; a group whose commits were all seen before is dropped,
\* and a retained group holds its kept commits in their original order.
C24_GroupKeptIffCommitKept ==
    /\ pc \in {"deduped", "rededuped"} => deduped = RetainedGroups(commits)
    /\ pc = "rededuped" => rededuped = RetainedGroups(deduped)

\* a group with commits is dropped, another keeps two commits
C24_Witness ==
    /\ pc = "deduped"
    /\ Cardinality({i \in 1..Len(commits) : commits[i].commit_messages # <<>>})
            > Len(deduped)
    /\ \E i \in 1..Len(deduped) : Len(deduped[i].commit_messages) >= 2

(***************************************************************************)
(* A resolution call through fetch_commits (repository.py:19-53), from the *)
(* dispatch to the return of the backend function it hands the call to.    *)
(* fetch_commits passes no unique_commits argument, so the backend         *)
(* functions run with their default, False.                                *)
(***************************************************************************)
\* get_all_commits is imported (repository.py:12) and called (lines 85-87),
\* and defined nowhere in the repository: by its name and its call, every
\* branch with all its commits between start_date and end_date
RECURSIVE AllCommitsLoop(_, _)
AllCommitsLoop(branches, map) ==
    IF branches = <<>> THEN map
    ELSE AllCommitsLoop(Tail(branches),
                        DictSet(map, Head(branches), ApiCommits(Head(branches))))

get_all_commits == AllCommitsLoop(ApiBranches, <<>>)

\* repository.py:56-136
fetch_commits_from_github(unique_commits_flag, wanted) ==
    IF unique_commits_flag
    THEN LET lineage == get_base_branch_map
             unique == get_all_unique_commits(lineage.base_branch_map,
                                              lineage.branch_commits_caches)
         IN  [base_branch_map |-> lineage.base_branch_map,
              branch_commits_caches |-> lineage.branch_commits_caches,
              unique_commits_map |-> unique,
              results |-> GroupCommits(unique, start_date, end_date, wanted)]
    ELSE [base_branch_map |-> <<>>,
          branch_commits_caches |-> <<>>,
          unique_commits_map |-> <<>>,
          results |-> GroupCommits(get_all_commits, start_date, end_date, wanted)]

\* one locator of every repository type
ResolveLocators ==
    {<<"https://", "github.com", "/", "owner/repo">>,
     <<"https://", "gitlab.com", "/", "owner/repo">>,
     <<"git@", "example.com", ":", "owner/repo.git">>,
     <<"/", "owner/repo">>}

\* the branches of the repository behind the locator
ResolveBranches == <<"feature", "main">>

InitResolve ==
    /\ pc = "resolve"
    /\ IdleSession
    /\ callee = "fetch_commits"
    /\ repo_path \in ResolveLocators
    /\ repo_type = get_repository_type(repo_path)
    /\ access_token \in AccessTokens
    /\ called = None
    /\ raised = None
    /\ unique_commits_arg = FALSE
    \* the API is read with a token, a clone otherwise
    /\ backend = IF repo_type = "github" /\ ~IsFalsy(access_token)
                 THEN "github" ELSE "local"
    /\ \E content \in [1..Len(ResolveBranches) -> SUBSET TieShas] :
            refs = [k \in 1..Len(ResolveBranches) |->
                        [name |-> ResolveBranches[k], commits |-> History(content[k])]]
    /\ start_date \in WindowStarts
    /\ end_date \in WindowEnds
    /\ branch_arg = None
    /\ cache_duration = None
    /\ now = 8
    /\ \/ mirror = "absent" /\ mtime = 0
       \/ mirror = "clone" /\ mtime = now - 1
    /\ ops = <<>>
    /\ IdleConfig
    /\ IdleDedup
    /\ IdleLineage

\* repository.py:38-53
ResolveDispatch ==
    /\ pc = "resolve"
    /\ LET out == fetch_commits(repo_path, access_token, repo_type)
       IN  /\ called' = out.called
           /\ raised' = out.raised
           /\ callee' = IF out.called = None THEN callee ELSE out.called
           /\ pc' = IF out.raised # None THEN "raised"
                    ELSE IF out.called = "fetch_commits_from_remote" THEN "remote"
                    ELSE IF out.called = "fetch_commits_from_local" THEN "repo"
                    ELSE IF out.called = "fetch_commits_from_github" THEN "github"
                    ELSE "returned"
    /\ UNCHANGED <<dedupVars, repoVars, lineageVars, unique_commits_arg, configVars,
                   cache_duration, mirror, mtime, now, ops,
                   repo_path, access_token, repo_type,
                   sessionVars>>

FetchFromGithub ==
    /\ pc = "github"
    /\ backend = "github"
    /\ LET out == fetch_commits_from_github(unique_commits_arg, branch_arg)
       IN  /\ base_branch_map' = out.base_branch_map
           /\ branch_commits_caches' = out.branch_commits_caches
           /\ unique_commits_map' = out.unique_commits_map
           /\ commits' = out.results
    /\ pc' = "input"
    /\ UNCHANGED <<deduped, rededuped, repoVars, callVars>>

NextResolve ==
    \/ ResolveDispatch
    \/ FetchFromGithub
    \/ FetchFromLocal
    \/ RemoteCheck
    \/ RemoteClone
    \/ RemoteFetch
    \/ RemoteRead

SpecResolve == InitResolve /\ [][NextResolve]_vars

(***************************************************************************)
(* Claims on a resolution call.                                            *)
(***************************************************************************)
\* the backend function fetch_commits called is done, and nothing it asked
\* of git failed
Resolved ==
    /\ called # None
    /\ pc \in {"input", "returned", "raised"}
    /\ \A i \in 1..Len(ops) : ops[i].ok

\* C25: every resolution call made through fetch_commits runs lineage
\* inference and then unique-commit extraction before it returns: the
\* lineage map has an entry for every branch, and the commits returned for a
\* branch are among those unique to it relative to its inferred parent, with
\* the hosted API as well as with a clone.
C25_LineageThenUnique ==
    Resolved =>
        /\ raised = None
        /\ DictKeys(base_branch_map) = BranchKeys
        /\ DictKeys(unique_commits_map) = BranchKeys
        /\ \A b \in BranchKeys :
                IdsOfBranch(commits, b) \subseteq
                    CommitHashes(DictGet(unique_commits_map, b))

(***************************************************************************)
(* Two calls of fetch_commits_from_remote that share one cache root        *)
(* (repository.py:258-294), interleaved at the operations they do on the   *)
(* directory: exists, getmtime, Repo(), rmtree, clone_from, fetch and the  *)
(* read of fetch_commits_from_local.  git and the network do not fail by   *)
(* themselves here: an operation fails only on a directory that is not in  *)
(* the state it needs.                                                     *)
(***************************************************************************)
\* a remote URL is the sequence of its path segments behind the host, a
\* segment the sequence of its parts between dots: a/app.git, b/app.git,
\* a/app.v2.git, a/lib.git
MirrorUrls ==
    {<< <<"a">>, <<"app", "git">> >>,
     << <<"b">>, <<"app", "git">> >>,
     << <<"a">>, <<"app", "v2", "git">> >>,
     << <<"a">>, <<"lib", "git">> >>}

\* line 258: repo_url.split("/")[-1].split(".")[0]
RepoName(repo_url) == Head(repo_url[Len(repo_url)])

\* the directories os.path.join(cache_dir, repo_name) can name
MirrorDirs == {RepoName(u) : u \in MirrorUrls}

Procs == {1, 2}

\* datetime.now() at the first and at a later look
Clock == {6, 7}

NoDirectory == [state |-> "absent", origin |-> <<>>, mtime |-> 0]

\* a directory git cloned from origin
Mirror(origin, t) == [state |-> "clone", origin |-> origin, mtime |-> t]

\* an entry of journal
Done(p, name, dir, ok) ==
    [proc |-> p, op |-> name, dir |-> dir, ok |-> ok, origin |-> cache_root[dir].origin]

AtLineLocked(p, position) ==
    /\ calls[p].pc = position
    /\ \A q \in Procs \ {p} :
            \/ RepoName(calls[q].url) # RepoName(calls[p].url)
            \/ calls[q].pc \in {"exists", "raised", "returned"}

\* the call p is at this operation; nothing in lines 237-294 waits for
\* another call
AtLine(p, position) == calls[p].pc = position

\* the call goes on to position, or raises
Goto(p, position) == calls' = [calls EXCEPT ![p].pc = position]

Raise(p, exception) ==
    calls' = [calls EXCEPT ![p].pc = "raised", ![p].raised = exception]

InitMirror ==
    /\ pc = "mirror"
    /\ calls \in [Procs -> [url : MirrorUrls, pc : {"exists"}, raised : {None}]]
    /\ \/ cache_root = [d \in MirrorDirs |-> NoDirectory]
       \/ \E u \in MirrorUrls :
            cache_root = [d \in MirrorDirs |->
                            IF d = RepoName(u) THEN Mirror(u, 0) ELSE NoDirectory]
    /\ journal = <<>>
    /\ now = 6
    /\ cache_duration \in {None, "7"}
    /\ callee = "fetch_commits_from_remote"
    /\ mirror = "absent"
    /\ mtime = 0
    /\ ops = <<>>
    /\ unique_commits_arg = FALSE
    /\ raised = None
    /\ IdleDispatch
    /\ IdleConfig
    /\ IdlePoll
    /\ IdleSummary
    /\ IdleDedup
    /\ IdleRepo
    /\ IdleLineage

\* what no operation of a call changes
MirrorFrame ==
    UNCHANGED <<pc, dedupVars, repoVars, lineageVars, unique_commits_arg, raised,
                callee, cache_duration, mirror, mtime, ops, dispatchVars, configVars,
                pollVars, summaryVars>>

\* line 261: os.path.exists(repo_cache_dir)
MirrorExists(p) ==
    LET dir == RepoName(calls[p].url)
        exists == cache_root[dir].state # "absent"
    IN  /\ AtLine(p, "exists")
        /\ journal' = Append(journal, Done(p, "exists", dir, TRUE))
        /\ Goto(p, IF exists THEN "getmtime" ELSE "clone")
        /\ UNCHANGED <<cache_root, now>>
        /\ MirrorFrame

\* lines 263-265: os.path.getmtime, the expiry and its comparison
MirrorCheckAge(p) ==
    LET dir == RepoName(calls[p].url)
        cache_expiry == CacheExpiry(cache_duration, cache_root[dir].mtime)
    IN  /\ AtLine(p, "getmtime")
        /\ IF cache_root[dir].state = "absent"
           THEN /\ journal' = Append(journal, Done(p, "getmtime", dir, FALSE))
                /\ Raise(p, "FileNotFoundError")
           ELSE /\ journal' = Append(journal, Done(p, "getmtime", dir, TRUE))
                /\ IF cache_expiry.raised # None
                   THEN Raise(p, cache_expiry.raised)
                   ELSE Goto(p, IF IsExpired(cache_expiry.value, now)
                                THEN "rmtree" ELSE "open")
        /\ UNCHANGED <<cache_root, now>>
        /\ MirrorFrame

\* line 267: Repo(repo_cache_dir)
MirrorOpen(p) ==
    LET dir == RepoName(calls[p].url)
    IN  /\ AtLine(p, "open")
        /\ IF cache_root[dir].state = "absent"
           THEN /\ journal' = Append(journal, Done(p, "open", dir, FALSE))
                /\ Raise(p, "NoSuchPathError")
           ELSE /\ journal' = Append(journal, Done(p, "open", dir, TRUE))
                /\ Goto(p, "fetch")
        /\ UNCHANGED <<cache_root, now>>
        /\ MirrorFrame

\* line 271: shutil.rmtree(repo_cache_dir)
MirrorRemove(p) ==
    LET dir == RepoName(calls[p].url)
    IN  /\ AtLine(p, "rmtree")
        /\ IF cache_root[dir].state = "absent"
           THEN /\ journal' = Append(journal, Done(p, "rmtree", dir, FALSE))
                /\ Raise(p, "FileNotFoundError")
                /\ UNCHANGED cache_root
           ELSE /\ journal' = Append(journal, Done(p, "rmtree", dir, TRUE))
                /\ cache_root' = [cache_root EXCEPT ![dir] = NoDirectory]
                /\ Goto(p, "clone")
        /\ UNCHANGED now
        /\ MirrorFrame

\* lines 279-282: Repo.clone_from(repo_url, repo_cache_dir); git refuses a
\* destination that exists and is not empty
MirrorClone(p) ==
    LET dir == RepoName(calls[p].url)
    IN  /\ AtLine(p, "clone")
        /\ IF cache_root[dir].state # "absent"
           THEN /\ journal' = Append(journal, Done(p, "clone", dir, FALSE))
                /\ Raise(p, "GitCommandError")
                /\ UNCHANGED cache_root
           ELSE /\ cache_root' = [cache_root EXCEPT ![dir] = Mirror(calls[p].url, now)]
                /\ journal' = Append(journal,
                        [Done(p, "clone", dir, TRUE) EXCEPT !.origin = calls[p].url])
                /\ Goto(p, "fetch")
        /\ UNCHANGED now
        /\ MirrorFrame

\* lines 283 and 287: repo.git.fetch(all=True), in the directory
MirrorFetch(p) ==
    LET dir == RepoName(calls[p].url)
    IN  /\ AtLine(p, "fetch")
        /\ IF cache_root[dir].state = "absent"
           THEN /\ journal' = Append(journal, Done(p, "fetch", dir, FALSE))
                /\ Raise(p, "GitCommandError")
           ELSE /\ journal' = Append(journal, Done(p, "fetch", dir, TRUE))
                /\ Goto(p, "read")
        /\ UNCHANGED <<cache_root, now>>
        /\ MirrorFrame

\* line 291: fetch_commits_from_local(repo_cache_dir, ...), which opens the
\* directory and lists its remote branches
MirrorRead(p) ==
    LET dir == RepoName(calls[p].url)
        out == fetch_commits_from_local(FALSE, None)
    IN  /\ AtLine(p, "read")
        /\ IF cache_root[dir].state = "absent"
           THEN /\ journal' = Append(journal, Done(p, "read", dir, FALSE))
                /\ Raise(p, "NoSuchPathError")
           ELSE /\ journal' = Append(journal, Done(p, "read", dir, TRUE))
                /\ IF out.raised # None
                   THEN Raise(p, out.raised)
                   ELSE Goto(p, "returned")
        /\ UNCHANGED <<cache_root, now>>
        /\ MirrorFrame

\* time passes between two operations
Tick ==
    /\ pc = "mirror"
    /\ now + 1 \in Clock
    /\ now' = now + 1
    /\ UNCHANGED <<calls, cache_root, journal>>
    /\ MirrorFrame

MirrorStep(p) ==
    \/ MirrorExists(p)
    \/ MirrorCheckAge(p)
    \/ MirrorOpen(p)
    \/ MirrorRemove(p)
    \/ MirrorClone(p)
    \/ MirrorFetch(p)
    \/ MirrorRead(p)

NextMirror ==
    \/ \E p \in Procs : MirrorExists(p)
    \/ \E p \in Procs : MirrorCheckAge(p)
    \/ \E p \in Procs : MirrorOpen(p)
    \/ \E p \in Procs : MirrorRemove(p)
    \/ \E p \in Procs : MirrorClone(p)
    \/ \E p \in Procs : MirrorFetch(p)
    \/ \E p \in Procs : MirrorRead(p)
    \/ Tick

SpecMirror == InitMirror /\ [][NextMirror]_vars

(***************************************************************************)
(* Claims on the mirrors under one cache root.                             *)
(***************************************************************************)
Running(p) == calls[p].pc \notin {"raised", "returned"}

\* entry k of journal was written by call p after its look at the
\* directory, and after another call deleted or created that directory
Interfered(k) ==
    \E i, j \in 1..Len(journal) :
        /\ i < j /\ j < k
        /\ journal[i].proc = journal[k].proc /\ journal[i].op = "exists"
        /\ journal[j].proc # journal[k].proc
        /\ journal[j].dir = journal[k].dir
        /\ journal[j].op \in {"rmtree", "clone"} /\ journal[j].ok

\* C26: the exists / check-age / delete / clone sequence of
\* fetch_commits_from_remote takes no lock and is not atomic: a call that has
\* not returned can always take its next operation, wherever the other call
\* stands, and an operation fails only when the other call deleted or created
\* the directory after the call looked at it.
C26_NoLockNotAtomic ==
    pc = "mirror" =>
        /\ \A p \in Procs : Running(p) => ENABLED MirrorStep(p)
        /\ \A k \in 1..Len(journal) : ~journal[k].ok => Interfered(k)

\* one call opened the mirror to reuse it, the other then deleted the
\* directory and the fetch of the first failed
C26_Witness ==
    /\ pc = "mirror"
    /\ \E i, j, k \in 1..Len(journal) :
            /\ i < j /\ j < k
            /\ journal[i].op = "open" /\ journal[i].ok
            /\ journal[j].op = "rmtree" /\ journal[j].ok
            /\ journal[j].proc # journal[i].proc
            /\ journal[j].dir = journal[i].dir
            /\ journal[k].proc = journal[i].proc
            /\ journal[k].op = "fetch" /\ ~journal[k].ok

\* C27: the mirror a call for URL u opens, fetches into and reads its
\* commits from was cloned from u; a call never reuses a mirror that was
\* created for another URL.
C27_MirrorOfSameUrl ==
    pc = "mirror" =>
        \A k \in 1..Len(journal) :
            (journal[k].op \in {"open", "fetch", "read"} /\ journal[k].ok)
                => journal[k].origin = calls[journal[k].proc].url

(***************************************************************************)
(* poll_for_token (config.py:190-223) against the token endpoint.          *)
(***************************************************************************)
\* at most this many polls are followed
MaxPolls == 4

\* the error codes the endpoint documents for the device flow, None for a
\* body with no "error"
PollErrors ==
    {None, "authorization_pending", "slow_down", "expired_token", "access_denied",
     "incorrect_device_code"}

\* an answer: the HTTP status class and the JSON body's "error" and
\* "access_token" (None when the key is absent)
PollAnswers == [status : {"ok", "http_error"}, error : PollErrors, access_token : {None, "token"}]

ContinuesOnError(error) == error # None

\* the branches of lines 207-214, which sleep and poll again
Continues(error) == error \in {"authorization_pending", "slow_down"}

\* the endpoint would end the loop: request_token raises on an HTTP error
\* status, and the loop returns on every other answer
Ends(answer) == answer.status = "http_error" \/ ~Continues(answer.error)

\* lines 203-223 on one response: whether the loop goes round again, and
\* the value it returns if not
poll_for_token(response) ==
    LET error == response.error
        token == response.access_token
    IN  IF error # None
        THEN IF Continues(error)
             THEN [continue |-> TRUE, value |-> None]
             ELSE [continue |-> FALSE, value |-> None]
        ELSE [continue |-> FALSE, value |-> token]

InitPoll ==
    /\ pc = "polling"
    /\ server \in PollAnswers
    /\ polled = <<>>
    /\ poll_result = None
    /\ unique_commits_arg = FALSE
    /\ raised = None
    /\ IdleMirror
    /\ IdleDispatch
    /\ IdleConfig
    /\ IdleRace
    /\ IdleSummary
    /\ IdleDedup
    /\ IdleRepo
    /\ IdleLineage

\* one round of the loop: request_token (lines 172-187), then lines 203-223
Poll ==
    /\ pc = "polling"
    /\ Len(polled) < MaxPolls
    /\ polled' = Append(polled, server)
    /\ IF server.status = "http_error"
       THEN /\ raised' = "HTTPError"
            /\ pc' = "raised"
            /\ UNCHANGED poll_result
       ELSE LET out == poll_for_token(server)
            IN  /\ poll_result' = out.value
                /\ pc' = IF out.continue THEN "polling" ELSE "returned"
                /\ UNCHANGED raised
    /\ UNCHANGED <<dedupVars, repoVars, lineageVars, unique_commits_arg,
                   mirrorVars, dispatchVars, configVars, raceVars, summaryVars, server>>

\* the user approves or refuses, the device code expires, the endpoint asks
\* for slower polls: the answer to the next poll changes; an answer that ends
\* the flow stays
ServerChanges ==
    /\ pc = "polling"
    /\ ~Ends(server)
    /\ server' \in PollAnswers \ {server}
    /\ UNCHANGED <<pc, dedupVars, repoVars, lineageVars, unique_commits_arg, raised,
                   mirrorVars, dispatchVars, configVars, raceVars, summaryVars,
                   polled, poll_result>>

NextPoll == Poll \/ ServerChanges

SpecPoll == InitPoll /\ [][NextPoll]_vars

\* the loop is sequential code: after its sleep it polls again
SpecPollFair == SpecPoll /\ WF_vars(Poll)

(***************************************************************************)
(* Claims on poll_for_token.                                               *)
(***************************************************************************)
\* an answer on which the claim has the loop poll again
KeepsPolling(answer) ==
    /\ answer.status = "ok"
    /\ answer.error \in {"authorization_pending", "slow_down"}

\* the polls made so far, and what came of them
PollsAsClaimed ==
    polled # <<>> =>
        LET n == Len(polled)
            last == polled[n]
        IN  /\ \A i \in 1..(n - 1) : KeepsPolling(polled[i])
            /\ pc = "polling" <=> KeepsPolling(last)
            /\ (pc = "returned" /\ last.error = None) => poll_result = last.access_token
            /\ (pc = "returned" /\ last.error # None) => poll_result = None
            /\ pc = "raised" <=> last.status = "http_error"

\* C28: poll_for_token keeps polling while the endpoint answers
\* authorization_pending or slow_down and returns at the first other answer,
\* never polling after it: the answer's access token when the answer carries
\* no error, None for expired_token, access_denied and any other error; and
\* once the endpoint would give an answer that is neither of the two, the
\* loop terminates.
C28_PollsUntilOtherAnswer ==
    /\ []PollsAsClaimed
    /\ (pc = "polling" /\ Len(polled) < MaxPolls /\ Ends(server)) ~> (pc # "polling")

\* the loop returned the token after an authorization_pending and a
\* slow_down answer
C28_Witness ==
    /\ pc = "returned"
    /\ Len(polled) >= 3
    /\ \E i, j \in 1..(Len(polled) - 1) :
            /\ polled[i].error = "authorization_pending"
            /\ polled[j].error = "slow_down"
    /\ poll_result = "token"

(***************************************************************************)
(* generate_summary and get_openai_summary (summary.py:54-142).  The       *)
(* configuration holds the three options of its section openai, as the     *)
(* file load_config_from_file creates does.                                *)
(***************************************************************************)
\* at most this many groups in one batch list
MaxBatches == 3

\* the exceptions the except clauses of lines 131-142 name
RequestErrors == {"RateLimitError", "AuthenticationError", "APIError", "Exception"}

\* the message contents a response may carry: text, text in white space,
\* white space only, no content
Contents == {"text", " text ", " ", None}

\* what client.chat.completions.create does: raises, or returns a response
\* with its choices (here at most one)
Replies ==
    {[raises |-> e, choices |-> <<>>] : e \in RequestErrors}
        \cup {[raises |-> None, choices |-> c] :
                c \in {<<>>} \cup {<<content>> : content \in Contents}}

\* str.strip() on these contents
Strip(content) ==
    IF content = " text " THEN "text"
    ELSE IF content = " " THEN ""
    ELSE content

\* lines 101-142; None.strip() raises AttributeError, which the last except
\* clause catches
get_openai_summary(reply) ==
    IF reply.raises # None THEN None
    ELSE IF reply.choices # <<>>
    THEN IF reply.choices[1] = None THEN None ELSE Strip(reply.choices[1])
    ELSE None

\* a line of the summary
Line(kind, commit_object, days, count, text) ==
    [kind |-> kind, author |-> commit_object.author, branch |-> commit_object.branch,
     start_date |-> commit_object.start_date, end_date |-> commit_object.end_date,
     days |-> days, count |-> count, text |-> text]

\* "-" * 50
SeparatorLine ==
    [kind |-> "separator", author |-> "", branch |-> "", start_date |-> 0,
     end_date |-> 0, days |-> 0, count |-> 0, text |-> ""]

\* max(1, calculate_days_between_dates(start_date, end_date))
Duration(commit_object) ==
    IF commit_object.end_date - commit_object.start_date > 1
    THEN commit_object.end_date - commit_object.start_date
    ELSE 1

\* lines 76-85: the five lines of a summary
BatchSummary(commit_object, openai_summary) ==
    LET count == Len(commit_object.commit_messages)
    IN  <<Line("Author", commit_object, 0, 0, ""),
          Line("Branch", commit_object, 0, 0, ""),
          Line("Period", commit_object, Duration(commit_object), 0, ""),
          Line("Summary of", commit_object, 0, count, ""),
          Line("text", commit_object, 0, 0, openai_summary)>>

\* line 87
FailedSummary(commit_object) == <<Line("Failed", commit_object, 0, 0, "")>>

\* if openai_summary
IsTruthy(openai_summary) == openai_summary # None /\ openai_summary # ""

NotPastLast(idx, n) == idx <= n - 1

\* idx < len(commit_batches) - 1
NotLast(idx, n) == idx < n - 1

\* the loop of lines 65-96; idx counts from 0, out is the list summary, an
\* entry the lines "\n".join makes of it
RECURSIVE SummaryLoop(_, _, _, _)
SummaryLoop(commit_batches, outcomes, idx, out) ==
    IF idx >= Len(commit_batches) THEN out
    ELSE LET commit_object == commit_batches[idx + 1]
             openai_summary == get_openai_summary(outcomes[idx + 1])
             entry == IF IsTruthy(openai_summary)
                      THEN BatchSummary(commit_object, openai_summary)
                      ELSE FailedSummary(commit_object)
             separator == IF NotLast(idx, Len(commit_batches))
                          THEN <<SeparatorLine>> ELSE <<>>
         IN  SummaryLoop(commit_batches, outcomes, idx + 1, out \o entry \o separator)

\* the lines of "\n".join(summary)
generate_summary(commit_batches, outcomes) == SummaryLoop(commit_batches, outcomes, 0, <<>>)

\* the groups of a batch list: as fetch_commits_from_github builds them
Batch(author, branch, to) ==
    [branch |-> branch, author |-> author, start_date |-> 1, end_date |-> to,
     commit_messages |-> <<Message("A")>>]

InitSummary ==
    /\ pc = "batches"
    /\ \E n \in 0..MaxBatches :
            /\ \E to \in {1, 3} :
               \E hdr \in [1..n -> {<<"alice", "main">>, <<"bob", "dev">>}] :
                    commits = [i \in 1..n |-> Batch(hdr[i][1], hdr[i][2], to)]
            /\ replies \in [1..n -> Replies]
    /\ summary = <<>>
    /\ deduped = <<>>
    /\ rededuped = <<>>
    /\ unique_commits_arg = FALSE
    /\ raised = None
    /\ IdleMirror
    /\ IdleDispatch
    /\ IdleConfig
    /\ IdleRace
    /\ IdlePoll
    /\ IdleRepo
    /\ IdleLineage

GenerateSummary ==
    /\ pc = "batches"
    /\ summary' = generate_summary(commits, replies)
    /\ pc' = "summarized"
    /\ UNCHANGED <<dedupVars, repoVars, lineageVars, unique_commits_arg, raised,
                   mirrorVars, dispatchVars, configVars, raceVars, pollVars, replies>>

NextSummary == GenerateSummary

SpecSummary == InitSummary /\ [][NextSummary]_vars

(***************************************************************************)
(* Claims on generate_summary.                                             *)
(***************************************************************************)
SeparatorPositions == {i \in 1..Len(summary) : summary[i].kind = "separator"}

\* the position of separator k; 0 and the end of the text stand for the
\* separators before the first entry and after the last
SeparatorAt(k) ==
    IF k = 0 THEN 0
    ELSE IF k > Cardinality(SeparatorPositions) THEN Len(summary) + 1
    ELSE CHOOSE i \in SeparatorPositions :
            Cardinality({j \in SeparatorPositions : j <= i}) = k

\* the lines between separator k - 1 and separator k
EntryOf(k) == SubSeq(summary, SeparatorAt(k - 1) + 1, SeparatorAt(k) - 1)

\* the request raised, or its response had no choice
RequestFailed(reply) == reply.raises # None \/ reply.choices = <<>>

IsSummaryOf(entry, commit_object) ==
    /\ Len(entry) = 5
    /\ [i \in 1..5 |-> entry[i].kind] = <<"Author", "Branch", "Period", "Summary of", "text">>
    /\ \A i \in 1..5 :
            entry[i].author = commit_object.author /\ entry[i].branch = commit_object.branch

IsFailureOf(entry, commit_object) ==
    /\ Len(entry) = 1
    /\ entry[1].kind = "Failed"
    /\ entry[1].author = commit_object.author
    /\ entry[1].branch = commit_object.branch

ListedBranches == {refs[i].name : i \in 1..Len(refs)}

\* following the parent links from b ends at a branch with no parent, in at
\* most steps links
RECURSIVE ReachesRoot(_, _)
ReachesRoot(b, steps) ==
    IF b = None THEN TRUE
    ELSE IF steps = 0 \/ ~DictHas(base_branch_map, b) THEN FALSE
    ELSE ReachesRoot(DictGet(base_branch_map, b), steps - 1)

\* C30: the lineage map has exactly one entry per listed branch, each value
\* is None or the name of a different listed branch, and the map is acyclic:
\* following the parent links from any branch reaches a branch with no
\* parent.
C30_LineageIsForest ==
    LineageDone =>
        /\ Len(base_branch_map) = Len(refs)
        /\ DictKeys(base_branch_map) = ListedBranches
        /\ \A b \in DictKeys(base_branch_map) :
                \/ DictGet(base_branch_map, b) = None
                \/ DictGet(base_branch_map, b) \in ListedBranches \ {b}
        /\ \A b \in DictKeys(base_branch_map) : ReachesRoot(b, Len(refs) + 1)

====
